---- MODULE Spec2Model ----
(***************************************************************************)
(* A model of ask_gemini.py: the interactive chat loop, the single-shot    *)
(* driver, the request builder and the response interpreter.               *)
(*                                                                         *)
(* Text is a sequence of tokens.  A token is either one whitespace         *)
(* character (" ", "\n", "\t") or a run of characters that begins and ends *)
(* with a non-whitespace character, so that str.strip() is the removal of  *)
(* the leading and trailing whitespace tokens.  The empty text and None    *)
(* are both <<>> (both are falsy in every test the code makes on them).    *)
(***************************************************************************)
EXTENDS Integers, Sequences, FiniteSets, TLC

VARIABLES
    pc,                      \* position of the process
    args,                    \* the parsed command line (or the inputs of a pure call)
    history_file,            \* content of .ask_history.json
    current_history,         \* the in-memory history list
    local_context_content,   \* text of .ask_context.local, <<>> when absent
    general_context_content, \* text of ~/.ask_context.general, <<>> when absent
    raw_line,                \* the line input() returned, before strip()
    user_input,              \* the stripped line
    history_for_api,         \* the window sent with the request
    payload_json,            \* result of construct_api_payload
    json_response,           \* what call_api returned
    response_text,           \* what parse_api_response returned
    current_model,           \* the model the request is sent to
    final_prompt_for_api,    \* the composed prompt of a single-shot run
    api_calls,               \* number of call_api invocations so far
    lines_read,              \* number of input() calls that returned a line
    outcome,                 \* how the last step ended
    warnings,                \* the warnings printed so far
    hist_at_turn,            \* current_history when the turn's line was read
    file_at_turn,            \* history_file when the turn's line was read
    exit_code,               \* process exit status, -1 while running
    SUMMARIZER_PIPELINE,     \* text_summarizer's cached pipeline, "None" until loaded
    calls                    \* the calls made to the PDF, summarizing and audio libraries

vars == <<pc, args, history_file, current_history, local_context_content,
          general_context_content, raw_line, user_input, history_for_api,
          payload_json, json_response, response_text, current_model,
          final_prompt_for_api, api_calls, lines_read, outcome, warnings,
          hist_at_turn, file_at_turn, exit_code, SUMMARIZER_PIPELINE, calls>>

---------------------------------------------------------------------------
(* Constants of the program *)

MAX_HISTORY_TURNS == 10

SUPPORTED_TEXT_MODELS == {"gemini-1.5-flash", "gemini-1.5-pro-latest", "gemini-1.0-pro"}

SUPPORTED_MULTIMODAL_MODELS == {"gemini-1.5-pro-latest", "gemini-1.5-flash"}

SUPPORTED_IMAGE_GENERATION_MODELS == {"imagen-2"}

DEFAULT_TEXT_MODEL == "gemini-1.5-flash"

DEFAULT_VISION_MODEL == "gemini-1.5-pro-latest"

DEFAULT_IMAGE_GENERATION_MODEL == "imagen-2"

DEFAULT_CHAT_MODEL == "gemini-1.5-flash"

---------------------------------------------------------------------------
(* Bounds of the model *)

\* lines a chat session reads before the model stops offering input
MaxLines == 2

---------------------------------------------------------------------------
(* Text: str.strip(), str.lower(), truthiness *)

IsSpace(tok) == tok \in {" ", "\n", "\t"}

RECURSIVE LStrip(_)
LStrip(t) ==
    IF t = <<>> THEN <<>>
    ELSE IF IsSpace(Head(t)) THEN LStrip(Tail(t)) ELSE t

RECURSIVE RStrip(_)
RStrip(t) ==
    IF t = <<>> THEN <<>>
    ELSE IF IsSpace(t[Len(t)]) THEN RStrip(SubSeq(t, 1, Len(t) - 1)) ELSE t

Strip(t) == RStrip(LStrip(t))

LowerTok(tok) ==
    CASE tok \in {"EXIT", "Exit", "eXit"} -> "exit"
      [] tok \in {"QUIT", "Quit", "quiT"} -> "quit"
      [] tok = "Hi" -> "hi"
      [] OTHER -> tok

Lower(t) == [i \in DOMAIN t |-> LowerTok(t[i])]

Truthy(t) == t # <<>>

\* "sep".join(texts)
RECURSIVE Join(_, _)
Join(sep, texts) ==
    IF texts = <<>> THEN <<>>
    ELSE IF Len(texts) = 1 THEN texts[1]
    ELSE texts[1] \o sep \o Join(sep, Tail(texts))

---------------------------------------------------------------------------
(* History entries and the history window *)

UserEntry(text) == [role |-> "user", parts |-> <<[text |-> text]>>]

ModelEntry(text) == [role |-> "model", parts |-> <<[text |-> text]>>]

\* seq[-n:] of Python, n > 0
LastN(seq, n) ==
    IF Len(seq) <= n THEN seq ELSE SubSeq(seq, Len(seq) - n + 1, Len(seq))

HistoryForApi_FirstN(h) ==
    IF MAX_HISTORY_TURNS > 0
    THEN SubSeq(h, 1, IF Len(h) <= MAX_HISTORY_TURNS * 2 THEN Len(h) ELSE MAX_HISTORY_TURNS * 2)
    ELSE h

HistoryForApi(h) ==
    IF MAX_HISTORY_TURNS > 0 THEN LastN(h, MAX_HISTORY_TURNS * 2) ELSE h

---------------------------------------------------------------------------
(* The history file.  Its content is a record [kind, data]:                *)
(*   "missing"  no file               "empty"   a file of zero bytes       *)
(*   "json"     JSON text of the list data                                 *)
(*   "partial"  a proper, non-empty prefix of a JSON text (not valid JSON) *)
(*   "dict"     JSON text of an object whose keys are data                 *)
(*   "number"   JSON text of a number                                      *)
(* A history item is a record: a well-formed one has the fields role and   *)
(* parts; [jstr |-> s] stands for an item that is a JSON string.           *)

FileMissing == [kind |-> "missing", data |-> <<>>]

FileEmpty == [kind |-> "empty", data |-> <<>>]

FilePartial == [kind |-> "partial", data |-> <<>>]

FileJson(h) == [kind |-> "json", data |-> h]

(* The text json.dump(history_data, f, indent=2) writes and json.loads reads.  *)
(* A JSON text is a sequence of tokens: the punctuation [ ] { } : , the     *)
(* quote, newline, space, and within a string one token per word or         *)
(* escaped character.                                                        *)

FileText(tokens) == [kind |-> "text", data |-> tokens]

\* characters json.dump writes as an escape (ensure_ascii is left on)
EscapePairs ==
    { <<"\"", "\\\"">>, <<"\\", "\\\\">>, <<"\n", "\\n">>, <<"\t", "\\t">>, <<"é", "\\u00e9">> }

EscapeToken_QuoteUnescaped(tok) ==
    IF tok # "\"" /\ \E p \in EscapePairs : p[1] = tok
    THEN (CHOOSE p \in EscapePairs : p[1] = tok)[2]
    ELSE tok

EscapeToken(tok) ==
    IF \E p \in EscapePairs : p[1] = tok
    THEN (CHOOSE p \in EscapePairs : p[1] = tok)[2]
    ELSE tok

UnescapeToken(tok) ==
    IF \E p \in EscapePairs : p[2] = tok
    THEN (CHOOSE p \in EscapePairs : p[2] = tok)[1]
    ELSE tok

Indent(level) == [i \in 1..(2 * level) |-> " "]

DumpString(text) == <<"\"">> \o [i \in DOMAIN text |-> EscapeToken(text[i])] \o <<"\"">>

\* the items of a list, one per line, separated by commas
RECURSIVE DumpItems(_, _)
DumpItems(dumped, level) ==
    IF dumped = <<>> THEN <<>>
    ELSE <<"\n">> \o Indent(level) \o Head(dumped)
           \o (IF Len(dumped) > 1 THEN <<",">> ELSE <<>>)
           \o DumpItems(Tail(dumped), level)

DumpList(dumped, level) ==
    IF dumped = <<>> THEN <<"[", "]">>
    ELSE <<"[">> \o DumpItems(dumped, level + 1) \o <<"\n">> \o Indent(level) \o <<"]">>

DumpPart(part, level) ==
    <<"{", "\n">> \o Indent(level + 1) \o DumpString(<<"text">>) \o <<":", " ">>
        \o DumpString(part.text) \o <<"\n">> \o Indent(level) \o <<"}">>

DumpEntry(entry, level) ==
    <<"{", "\n">> \o Indent(level + 1) \o DumpString(<<"role">>) \o <<":", " ">>
        \o DumpString(<<entry.role>>) \o <<",", "\n">>
        \o Indent(level + 1) \o DumpString(<<"parts">>) \o <<":", " ">>
        \o DumpList([i \in DOMAIN entry.parts |-> DumpPart(entry.parts[i], level + 2)], level + 1)
        \o <<"\n">> \o Indent(level) \o <<"}">>

\* json.dump of a list of turns {"role": ..., "parts": [{"text": ...}]}
json_dump(history_data) ==
    DumpList([i \in DOMAIN history_data |-> DumpEntry(history_data[i], 1)], 0)

RECURSIVE SkipSpace(_, _)
SkipSpace(t, i) ==
    IF i <= Len(t) /\ t[i] \in {" ", "\n", "\t"} THEN SkipSpace(t, i + 1) ELSE i

ParseFailed == [ok |-> FALSE, value |-> <<>>, next |-> 0]

\* the string that opens at t[i - 1]; next is the position after the closing quote
RECURSIVE ScanString(_, _, _)
ScanString(t, i, acc) ==
    IF i > Len(t) THEN ParseFailed
    ELSE IF t[i] = "\"" THEN [ok |-> TRUE, value |-> acc, next |-> i + 1]
    ELSE IF t[i] \in {"\n", "\t"} THEN ParseFailed
    ELSE ScanString(t, i + 1, Append(acc, UnescapeToken(t[i])))

\* a Python str in this model: a role is one word, an item of a list a JSON
\* string [jstr |-> ...], any other string a text
StringValue(where, text) ==
    IF where = "role" /\ Len(text) = 1 THEN text[1]
    ELSE IF where = "item" THEN [jstr |-> IF Len(text) = 1 THEN text[1] ELSE text]
    ELSE text

RECURSIVE ParseValue(_, _, _), ParseItems(_, _, _), ParseMembers(_, _, _)
ParseValue(t, i, where) ==
    LET j == SkipSpace(t, i)
    IN  IF j > Len(t) THEN ParseFailed
        ELSE IF t[j] = "\""
        THEN LET s == ScanString(t, j + 1, <<>>)
             IN  IF s.ok THEN [s EXCEPT !.value = StringValue(where, s.value)] ELSE ParseFailed
        ELSE IF t[j] = "[" THEN ParseItems(t, j + 1, <<>>)
        ELSE IF t[j] = "{" THEN ParseMembers(t, j + 1, <<>>)
        ELSE ParseFailed

ParseItems(t, i, acc) ==
    LET j == SkipSpace(t, i)
    IN  IF j > Len(t) THEN ParseFailed
        ELSE IF t[j] = "]" /\ acc = <<>> THEN [ok |-> TRUE, value |-> <<>>, next |-> j + 1]
        ELSE LET v == ParseValue(t, j, "item")
                 k == SkipSpace(t, v.next)
             IN  IF ~v.ok \/ k > Len(t) THEN ParseFailed
                 ELSE IF t[k] = "," THEN ParseItems(t, k + 1, Append(acc, v.value))
                 ELSE IF t[k] = "]"
                 THEN [ok |-> TRUE, value |-> Append(acc, v.value), next |-> k + 1]
                 ELSE ParseFailed

\* acc is the record of the members read so far
ParseMembers(t, i, acc) ==
    LET j == SkipSpace(t, i)
    IN  IF j > Len(t) \/ t[j] # "\"" THEN ParseFailed
        ELSE LET key == ScanString(t, j + 1, <<>>)
                 c == SkipSpace(t, key.next)
             IN  IF ~key.ok \/ Len(key.value) # 1 \/ c > Len(t) THEN ParseFailed
                 ELSE IF t[c] # ":" THEN ParseFailed
                 ELSE LET v == ParseValue(t, c + 1, key.value[1])
                          k == SkipSpace(t, v.next)
                          members == [x \in DOMAIN acc \cup {key.value[1]} |->
                                         IF x = key.value[1] THEN v.value ELSE acc[x]]
                      IN  IF ~v.ok \/ k > Len(t) THEN ParseFailed
                          ELSE IF t[k] = "," THEN ParseMembers(t, k + 1, members)
                          ELSE IF t[k] = "}"
                          THEN [ok |-> TRUE, value |-> members, next |-> k + 1]
                          ELSE ParseFailed

\* json.loads of a text of lists, objects and strings
json_loads(t) ==
    LET v == ParseValue(t, 1, "top")
    IN  IF v.ok /\ SkipSpace(t, v.next) = Len(t) + 1
        THEN [raised |-> "none", value |-> v.value,
              kind |-> IF t[SkipSpace(t, 1)] = "[" THEN "list"
                       ELSE IF t[SkipSpace(t, 1)] = "{" THEN "dict" ELSE "str"]
        ELSE [raised |-> "JSONDecodeError", value |-> <<>>, kind |-> "none"]

\* load_local_history of a file that holds a text
LoadText(content) ==
    IF content = <<>> THEN [kind |-> "list", items |-> <<>>]
    ELSE IF json_loads(content).raised # "none" THEN [kind |-> "list", items |-> <<>>]
    ELSE [kind |-> json_loads(content).kind, items |-> json_loads(content).value]

\* what json.loads / the early returns give: [kind |-> "list" | "dict" | "number", items]
load_local_history(file) ==
    CASE file.kind \in {"missing", "empty", "partial"} -> [kind |-> "list", items |-> <<>>]
      [] file.kind = "text" -> LoadText(file.data)
      [] file.kind = "json" -> [kind |-> "list", items |-> file.data]
      [] file.kind = "dict" -> [kind |-> "dict", items |-> file.data]
      [] OTHER -> [kind |-> "number", items |-> <<>>]

\* list(initial_history): a dict gives the list of its keys, a number raises TypeError
ListOf(loaded) ==
    CASE loaded.kind = "list" -> [raised |-> "none", items |-> loaded.items]
      [] loaded.kind = "dict" ->
            [raised |-> "none",
             items |-> [i \in DOMAIN loaded.items |-> [jstr |-> loaded.items[i]]]]
      [] OTHER -> [raised |-> "TypeError", items |-> <<>>]

---------------------------------------------------------------------------
(* construct_api_payload *)

\* the files an --image-path can name
ImageFiles ==
    [p \in {"cat.jpg", "gone.jpg", "locked.jpg"} |->
        CASE p = "cat.jpg" -> "readable"
          [] p = "gone.jpg" -> "missing"
          [] OTHER -> "unreadable"]

\* encode_image_to_base64: the encoded bytes, or the exception open() raises
encode_image_to_base64(image_path) ==
    CASE ImageFiles[image_path] = "readable" -> [raised |-> "none", data |-> "b64:" \o image_path]
      [] ImageFiles[image_path] = "missing" -> [raised |-> "FileNotFoundError", data |-> ""]
      [] OTHER -> [raised |-> "PermissionError", data |-> ""]

SafetySettings ==
    << [category |-> "HARM_CATEGORY_HARASSMENT", threshold |-> "BLOCK_MEDIUM_AND_ABOVE"],
       [category |-> "HARM_CATEGORY_HATE_SPEECH", threshold |-> "BLOCK_MEDIUM_AND_ABOVE"],
       [category |-> "HARM_CATEGORY_SEXUALLY_EXPLICIT", threshold |-> "BLOCK_MEDIUM_AND_ABOVE"],
       [category |-> "HARM_CATEGORY_DANGEROUS_CONTENT", threshold |-> "BLOCK_MEDIUM_AND_ABOVE"] >>

ImageGenerationTools ==
    << [function_declarations |->
          << [name |-> "generate_image",
              description |-> "Generates an image based on a textual prompt provided by the user.",
              parameters |->
                  [type |-> "OBJECT",
                   properties |-> [prompt |-> [type |-> "STRING",
                                               description |-> "The detailed textual prompt for image generation."]],
                   required |-> <<"prompt">>]] >>] >>

ImageGenerationToolConfig ==
    [mode |-> "ANY",
     function_calling_config |-> [mode |-> "ANY", allowed_function_names |-> <<"generate_image">>]]

NoPayload == [contents |-> <<>>]

\* the exception item["role"] / item["parts"] raises on a history item, "none" if neither does
HistoryItemError(item) ==
    IF "jstr" \in DOMAIN item THEN "TypeError"
    ELSE IF "role" \notin DOMAIN item \/ "parts" \notin DOMAIN item THEN "KeyError"
    ELSE "none"

RECURSIVE FirstHistoryError(_)
FirstHistoryError(history) ==
    IF history = <<>> THEN "none"
    ELSE IF HistoryItemError(Head(history)) # "none" THEN HistoryItemError(Head(history))
    ELSE FirstHistoryError(Tail(history))

ConversationHistoryPayload(history) ==
    [i \in DOMAIN history |-> [role |-> history[i].role, parts |-> history[i].parts]]

ImageGenerationPayload(generation_prompt, gen) ==
    [contents |-> << [role |-> "user",
                      parts |-> << [text |-> <<"Please generate an image based on this description:", " ">>
                                              \o generation_prompt] >>] >>,
     tools |-> ImageGenerationTools,
     tool_config |-> ImageGenerationToolConfig,
     generationConfig |-> [temperature |-> gen.temperature],
     safetySettings |-> SafetySettings]

\* the chat payload with the generation block of the image-generation payload
ChatPayload_TemperatureOnly(history, current_parts, gen) ==
    [contents |-> ConversationHistoryPayload(history) \o << [role |-> "user", parts |-> current_parts] >>,
     generationConfig |-> [temperature |-> gen.temperature],
     safetySettings |-> SafetySettings]

ChatPayload(history, current_parts, gen) ==
    [contents |-> ConversationHistoryPayload(history) \o << [role |-> "user", parts |-> current_parts] >>,
     generationConfig |-> [temperature |-> gen.temperature, topP |-> gen.top_p,
                           topK |-> gen.top_k, maxOutputTokens |-> gen.max_output_tokens],
     safetySettings |-> SafetySettings]

\* the parts of the current turn once the image is encoded
CurrentPartsImageFirst(text_part, image_b64) ==
    << [inline_data |-> [mime_type |-> "image/jpeg", data |-> image_b64]], text_part >>

CurrentParts(text_part, image_b64) ==
    << text_part, [inline_data |-> [mime_type |-> "image/jpeg", data |-> image_b64]] >>

\* construct_api_payload without the test of the model's capability
construct_api_payload_AnyModelGenerates(prompt_text, gen, image_path, model_name, history, generation_prompt) ==
    IF Truthy(generation_prompt)
    THEN [raised |-> "none", payload |-> ImageGenerationPayload(generation_prompt, gen)]
    ELSE IF FirstHistoryError(history) # "none"
    THEN [raised |-> FirstHistoryError(history), payload |-> NoPayload]
    ELSE LET text_part == [text |-> IF Truthy(prompt_text) THEN prompt_text ELSE <<" ">>]
         IN  IF image_path # "" /\ model_name \in SUPPORTED_MULTIMODAL_MODELS
             THEN LET enc == encode_image_to_base64(image_path)
                  IN  IF enc.raised = "none"
                      THEN [raised |-> "none",
                            payload |-> ChatPayload(history, CurrentParts(text_part, enc.data), gen)]
                      ELSE [raised |-> "APIError", payload |-> NoPayload]
             ELSE [raised |-> "none", payload |-> ChatPayload(history, <<text_part>>, gen)]

\* construct_api_payload without the test of the model's vision capability
construct_api_payload_AnyModelSeesImages(prompt_text, gen, image_path, model_name, history, generation_prompt) ==
    IF Truthy(generation_prompt) /\ model_name \in SUPPORTED_IMAGE_GENERATION_MODELS
    THEN [raised |-> "none", payload |-> ImageGenerationPayload(generation_prompt, gen)]
    ELSE IF FirstHistoryError(history) # "none"
    THEN [raised |-> FirstHistoryError(history), payload |-> NoPayload]
    ELSE LET text_part == [text |-> IF Truthy(prompt_text) THEN prompt_text ELSE <<" ">>]
         IN  IF image_path # ""
             THEN LET enc == encode_image_to_base64(image_path)
                  IN  IF enc.raised = "none"
                      THEN [raised |-> "none",
                            payload |-> ChatPayload(history, CurrentParts(text_part, enc.data), gen)]
                      ELSE [raised |-> "APIError", payload |-> NoPayload]
             ELSE [raised |-> "none", payload |-> ChatPayload(history, <<text_part>>, gen)]

\* [raised |-> "none", payload] or [raised |-> the exception that leaves the function]
construct_api_payload(prompt_text, gen, image_path, model_name, history, generation_prompt) ==
    IF Truthy(generation_prompt) /\ model_name \in SUPPORTED_IMAGE_GENERATION_MODELS
    THEN [raised |-> "none", payload |-> ImageGenerationPayload(generation_prompt, gen)]
    ELSE IF FirstHistoryError(history) # "none"
    THEN [raised |-> FirstHistoryError(history), payload |-> NoPayload]
    ELSE LET text_part == [text |-> IF Truthy(prompt_text) THEN prompt_text ELSE <<" ">>]
         IN  IF image_path # "" /\ model_name \in SUPPORTED_MULTIMODAL_MODELS
             THEN LET enc == encode_image_to_base64(image_path)
                  IN  IF enc.raised = "none"
                      THEN [raised |-> "none",
                            payload |-> ChatPayload(history, CurrentParts(text_part, enc.data), gen)]
                      ELSE [raised |-> "APIError", payload |-> NoPayload]
             ELSE [raised |-> "none", payload |-> ChatPayload(history, <<text_part>>, gen)]

---------------------------------------------------------------------------
(* parse_api_response.  A response is a record with the optional fields    *)
(* candidates and promptFeedback; a candidate a record with the optional   *)
(* fields content and finishReason; a part a record with the optional      *)
(* fields text, inlineData, fileData and functionCall.  A media type is    *)
(* the pair <<type, subtype>>.                                             *)

HasInlineData(part) ==
    /\ "inlineData" \in DOMAIN part
    /\ "data" \in DOMAIN part.inlineData
    /\ "mimeType" \in DOMAIN part.inlineData

MimeText(mime) == mime[1] \o "/" \o mime[2]

UnsupportedInlineText(mime) ==
    << "[Received unsupported inlineData mime_type:", " ", MimeText(mime) \o "]" >>

FileUriText(fileData) ==
    << "Image available at URI:", " ", fileData.fileUri, " ",
       "(MIME:", " ",
       (IF "mimeType" \in DOMAIN fileData THEN MimeText(fileData.mimeType) ELSE "N/A") \o ")" >>

FunctionCallText(fc) ==
    << "[Model wants to call function '"
         \o (IF "name" \in DOMAIN fc THEN fc.name ELSE "unknown_function")
         \o "' with arguments:", " ",
       (IF "args" \in DOMAIN fc THEN fc.args ELSE "{}") \o "]" >>

FunctionCallNote ==
    << "(Note: This script's image generation is experimental and may require multi-turn tool handling not fully implemented here if only a function call is returned.)" >>

\* the inner loop without the functionCall branch
ProcessPart_IgnoresFunctionCall(acc, part) ==
    IF acc.raised # "none" THEN acc
    ELSE LET a1 == IF "text" \in DOMAIN part /\ Truthy(part.text)
                   THEN [acc EXCEPT !.texts = Append(@, part.text)]
                   ELSE acc
         IN  IF HasInlineData(part)
             THEN IF part.inlineData.mimeType[1] = "image"
                  THEN [a1 EXCEPT !.raised = "NameError"]
                  ELSE [a1 EXCEPT !.texts = Append(@, UnsupportedInlineText(part.inlineData.mimeType))]
             ELSE IF "fileData" \in DOMAIN part /\ "fileUri" \in DOMAIN part.fileData
             THEN [a1 EXCEPT !.texts = Append(@, FileUriText(part.fileData))]
             ELSE a1

\* one pass of the inner loop; acc is [texts, image_saved, raised]
ProcessPart(acc, part) ==
    IF acc.raised # "none" THEN acc
    ELSE LET a1 == IF "text" \in DOMAIN part /\ Truthy(part.text)
                   THEN [acc EXCEPT !.texts = Append(@, part.text)]
                   ELSE acc
         IN  IF HasInlineData(part)
             THEN IF part.inlineData.mimeType[1] = "image"
                  \* generation_prompt_text is no name of this function's scope
                  THEN [a1 EXCEPT !.raised = "NameError"]
                  ELSE [a1 EXCEPT !.texts = Append(@, UnsupportedInlineText(part.inlineData.mimeType))]
             ELSE IF "fileData" \in DOMAIN part /\ "fileUri" \in DOMAIN part.fileData
             THEN [a1 EXCEPT !.texts = Append(@, FileUriText(part.fileData))]
             ELSE IF "functionCall" \in DOMAIN part
             THEN [a1 EXCEPT !.texts = Append(Append(@, FunctionCallText(part.functionCall)),
                                              <<" ", " ">> \o FunctionCallNote)]
             ELSE a1

RECURSIVE ProcessParts(_, _)
ProcessParts(acc, parts) ==
    IF parts = <<>> THEN acc ELSE ProcessParts(ProcessPart(acc, Head(parts)), Tail(parts))

CandidateHasParts(candidate) ==
    /\ "content" \in DOMAIN candidate
    /\ "parts" \in DOMAIN candidate.content
    /\ candidate.content.parts # <<>>

RECURSIVE ProcessCandidates(_, _, _)
ProcessCandidates(acc, candidates, candidate_idx) ==
    IF candidates = <<>> \/ acc.raised # "none" THEN acc
    ELSE LET candidate == Head(candidates)
         IN  IF "jstr" \in DOMAIN candidate
             THEN [acc EXCEPT !.raised = "AttributeError"]
             ELSE IF ~CandidateHasParts(candidate)
             THEN IF candidate_idx = 0
                  THEN [acc EXCEPT !.raised = "APIError",
                                   !.error = "Primary candidate in API response is missing 'content' or 'parts'."]
                  ELSE ProcessCandidates(acc, Tail(candidates), candidate_idx + 1)
             ELSE ProcessCandidates(ProcessParts(acc, candidate.content.parts),
                                    Tail(candidates), candidate_idx + 1)

\* [raised |-> "none", text, image_saved] or [raised |-> the exception that leaves the
\* function, error |-> the lead of the APIError's message]
parse_api_response(response) ==
    IF "candidates" \notin DOMAIN response \/ response.candidates = <<>>
    THEN [raised |-> "APIError", text |-> <<>>, image_saved |-> FALSE,
          error |-> "API response is missing 'candidates' list or it is empty."]
    ELSE LET acc == ProcessCandidates([texts |-> <<>>, image_saved |-> FALSE, raised |-> "none",
                                       error |-> "none"],
                                      response.candidates, 0)
             primary_candidate_parts == response.candidates[1].content.parts
         IN  IF acc.raised # "none"
             THEN [raised |-> acc.raised, text |-> <<>>, image_saved |-> FALSE, error |-> acc.error]
             ELSE IF acc.texts = <<>> /\ ~acc.image_saved
                     /\ ~(Len(primary_candidate_parts) = 1
                          /\ "functionCall" \in DOMAIN primary_candidate_parts[1])
             THEN [raised |-> "APIError", text |-> <<>>, image_saved |-> FALSE,
                   error |-> "No usable text or image data found in API response."]
             ELSE [raised |-> "none",
                   text |-> Strip(Join(<<"\n">>, acc.texts)),
                   image_saved |-> acc.image_saved, error |-> "none"]

\* main passes generation_prompt_text=..., a keyword the function does not take:
\* the call raises TypeError before the body runs
parse_api_response_kw(response, generation_prompt_text) ==
    [raised |-> "TypeError", text |-> <<>>, image_saved |-> FALSE, error |-> "none"]

---------------------------------------------------------------------------
(* GeminiAPIClient.call_api.  A server reply is what requests.post and     *)
(* raise_for_status meet: a 2xx answer with a JSON body, a 2xx answer      *)
(* whose body is not JSON, or one of the request exceptions.               *)

NoResponse == [none |-> TRUE]

RequestTimeout == 60

ApiUrl(model_name) ==
    "https://generativelanguage.googleapis.com/v1beta/models/" \o model_name \o ":generateContent"

\* the one requests.post of an invocation
ApiRequest(model_name, payload) ==
    [url |-> ApiUrl(model_name), data |-> payload, timeout |-> RequestTimeout]

(* A JSON value of an error body: an object is a record of its members, a  *)
(* string [jstr |-> its words], null [jnull |-> TRUE], a number            *)
(* [jnum |-> n], an array [jlist |-> its items].                           *)
IsJsonObject(v) == DOMAIN v \cap {"jstr", "jnull", "jnum", "jlist"} = {}

\* Python's `key in v`: "true", "false" or the exception it raises
Contains(v, key) ==
    IF "jnull" \in DOMAIN v \/ "jnum" \in DOMAIN v THEN "TypeError"
    ELSE IF "jstr" \in DOMAIN v
    THEN IF \E i \in DOMAIN v.jstr : v.jstr[i] = key THEN "true" ELSE "false"
    ELSE IF "jlist" \in DOMAIN v
    THEN IF \E i \in DOMAIN v.jlist : v.jlist[i] = [jstr |-> <<key>>] THEN "true" ELSE "false"
    ELSE IF key \in DOMAIN v THEN "true" ELSE "false"

\* the except HTTPError clause: [raised, message]
HttpErrorMessage(reply) ==
    LET error_message == << "API request failed with HTTP status code ", ToString(reply.status),
                            " (", reply.reason, ")." >>
        original == << ". Original error: ", ToString(reply.status) \o " Error" >>
        full == [raised |-> "APIError",
                 message |-> error_message \o << " Full response: ", reply.body.text >> \o original]
        type_error == [raised |-> "TypeError", message |-> <<>>]
    IN  IF "json" \notin DOMAIN reply.body THEN full
        ELSE LET error_details == reply.body.json
             IN  IF Contains(error_details, "error") = "TypeError" THEN type_error
                 ELSE IF Contains(error_details, "error") = "false" THEN full
                 ELSE IF ~IsJsonObject(error_details) THEN type_error
                 ELSE IF Contains(error_details.error, "message") = "TypeError" THEN type_error
                 ELSE IF Contains(error_details.error, "message") = "false" THEN full
                 ELSE IF ~IsJsonObject(error_details.error) THEN type_error
                 ELSE [raised |-> "APIError",
                       message |-> error_message
                                   \o << " API Error Message: ", error_details.error.message >>
                                   \o original]

\* [raised |-> "none", value] or [raised |-> exception type, failure |-> its class, message]
call_api(model_name, payload, reply) ==
    LET request == ApiRequest(model_name, payload)
    IN  IF reply.kind = "ok"
        THEN [raised |-> "none", value |-> reply.body, failure |-> "none",
              message |-> <<>>, request |-> request]
        ELSE IF reply.kind = "ok_not_json"
        THEN [raised |-> "JSONDecodeError", value |-> NoResponse, failure |-> "none",
              message |-> <<>>, request |-> request]
        ELSE IF reply.kind = "connection_error"
        THEN [raised |-> "APIError", value |-> NoResponse, failure |-> "connectivity",
              message |-> << "Error connecting to the API. Please check your internet connection and the API endpoint: ",
                             request.url, ". Original error: ", reply.kind >>,
              request |-> request]
        ELSE IF reply.kind = "timeout"
        THEN [raised |-> "APIError", value |-> NoResponse, failure |-> "timeout",
              message |-> << "The request to the API timed out after 60 seconds. Original error: ",
                             reply.kind >>,
              request |-> request]
        ELSE IF reply.kind = "http_error"
        THEN [raised |-> HttpErrorMessage(reply).raised, value |-> NoResponse,
              failure |-> IF HttpErrorMessage(reply).raised = "APIError" THEN "http" ELSE "none",
              message |-> HttpErrorMessage(reply).message, request |-> request]
        ELSE [raised |-> "APIError", value |-> NoResponse, failure |-> "other",
              message |-> << "An unexpected error occurred while calling the Gemini API: ", reply.kind >>,
              request |-> request]

---------------------------------------------------------------------------
(* Inputs of the model *)

TextPart(t) == [text |-> t]

OneCandidate(parts) == << [content |-> [parts |-> parts], finishReason |-> "STOP"] >>

RespHello == [candidates |-> OneCandidate(<< TextPart(<<"Hello,", " ">>), TextPart(<<"world.">>) >>)]

RespPadded == [candidates |-> OneCandidate(<< TextPart(<<" ", "fine", "\n">>) >>)]

RespFunctionCall ==
    [candidates |-> OneCandidate(<< [functionCall |-> [name |-> "generate_image", args |-> "{\"prompt\": \"a cat\"}"]] >>)]

RespBlockedWithText ==
    [promptFeedback |-> [blockReason |-> "SAFETY"],
     candidates |-> OneCandidate(<< TextPart(<<"partial">>) >>)]

RespPromptBlocked == [promptFeedback |-> [blockReason |-> "SAFETY"]]

RespSafety == [candidates |-> << [finishReason |-> "SAFETY"] >>]

RespEmptyText == [candidates |-> OneCandidate(<< TextPart(<<>>) >>)]

RespImage ==
    [candidates |-> OneCandidate(<< [inlineData |-> [mimeType |-> <<"image", "png">>, data |-> "aGk="]] >>)]

RespBadCandidate == [candidates |-> << [jstr |-> "oops"] >>]

Responses ==
    { RespHello, RespPadded, RespFunctionCall, RespBlockedWithText, RespPromptBlocked,
      RespSafety, RespEmptyText, RespImage, RespBadCandidate }

QuotaBody ==
    [text |-> "{\"error\": {\"message\": \"Quota exceeded\"}}",
     json |-> [error |-> [message |-> "Quota exceeded"]]]

ServerReplies ==
    { [kind |-> "ok", body |-> r] : r \in Responses }
      \cup { [kind |-> k] : k \in {"ok_not_json", "connection_error", "timeout",
                                   "request_exception"} }
      \cup { [kind |-> "http_error", status |-> 429, reason |-> "Too Many Requests",
              body |-> QuotaBody] }

\* lines that are 'exit' or 'quit' once trimmed and lower-cased
ExitLines == { <<"exit">>, <<" ", "QUIT", " ">>, <<"Exit", "\n">>, <<"\t", "quit">> }

\* lines that are empty once trimmed
BlankLines == { <<>>, <<" ", " ">> }

\* every other line
OrdinaryLines == { <<"hi">>, <<" ", "exit", " ", "now", " ">> }

InputLines == ExitLines \cup BlankLines \cup OrdinaryLines

\* a stored history of n entries: n/2 past turns
PastHistory(n) ==
    [i \in 1..n |->
        IF i % 2 = 1 THEN UserEntry(<<"q" \o ToString((i + 1) \div 2)>>)
                     ELSE ModelEntry(<<"a" \o ToString(i \div 2)>>)]

InitialFiles ==
    { FileMissing, FileEmpty, FilePartial,
      FileJson(PastHistory(2)),
      FileJson(PastHistory(MAX_HISTORY_TURNS * 2)),
      FileJson(PastHistory(MAX_HISTORY_TURNS * 2 + 2)),
      FileJson(<< [jstr |-> "x"] >>),
      FileJson(<< [role |-> "user"] >>),
      [kind |-> "dict", data |-> <<"a">>],
      [kind |-> "number", data |-> <<>>] }

\* load_context_file: the stripped content, <<>> (None) when the file is absent
load_context_file(content) == Strip(content)

LocalContextFiles == { <<>>, <<" ", "\n">>, <<"Answer in Spanish.", "\n">> }

GeneralContextFiles == { <<>>, <<"Be brief.", "\n">> }

DefaultGen == [temperature |-> 8, max_output_tokens |-> 2048, top_p |-> 10, top_k |-> 1]

---------------------------------------------------------------------------
(* start_chat_session *)

IsExitCommand_CaseSensitive(line) == line \in {<<"exit">>, <<"quit">>}

\* user_input.lower() in ["exit", "quit"]
IsExitCommand(line) == Lower(line) \in {<<"exit">>, <<"quit">>}

\* prompt_for_api_turn: local context wraps the line, general context wraps the result
ChatPrompt(line, local, general) ==
    LET inner == IF Truthy(local)
                 THEN <<"Using local context:", "\n">> \o local
                        \o <<"\n", "---", "\n", "User Prompt:", "\n">> \o line
                 ELSE line
    IN  IF Truthy(general)
        THEN <<"Using general context:", "\n">> \o general \o <<"\n", "---", "\n">> \o inner
        ELSE inner

AppendTurn_WrappedPrompt(h, line, text, local, general) ==
    Append(Append(h, UserEntry(ChatPrompt(line, local, general))), ModelEntry(text))

AppendTurn_UserOnly(h, line, text, local, general) ==
    Append(h, UserEntry(line))

\* the two appends of a successful turn
AppendTurn(h, line, text, local, general) ==
    Append(Append(h, UserEntry(line)), ModelEntry(text))

InitChat ==
    /\ pc = "start"
    /\ args = [chat |-> TRUE, model |-> DEFAULT_CHAT_MODEL, gen |-> DefaultGen]
    /\ history_file \in InitialFiles
    /\ current_history = <<>>
    /\ local_context_content \in { load_context_file(c) : c \in LocalContextFiles }
    /\ general_context_content \in { load_context_file(c) : c \in GeneralContextFiles }
    /\ raw_line = <<>>
    /\ user_input = <<>>
    /\ history_for_api = <<>>
    /\ payload_json = NoPayload
    /\ json_response = NoResponse
    /\ response_text = <<>>
    /\ current_model = DEFAULT_CHAT_MODEL
    /\ final_prompt_for_api = <<>>
    /\ api_calls = 0
    /\ lines_read = 0
    /\ outcome = "none"
    /\ warnings = {}
    /\ hist_at_turn = <<>>
    /\ file_at_turn = history_file
    /\ exit_code = -1
    /\ SUMMARIZER_PIPELINE = "None"
    /\ calls = <<>>

\* main loads the history and enters the session: current_history = list(initial_history)
StartChatSession ==
    /\ pc = "start"
    /\ LET copied == ListOf(load_local_history(history_file))
       IN  IF copied.raised = "none"
           THEN /\ current_history' = copied.items
                /\ hist_at_turn' = copied.items
                /\ pc' = "input"
                /\ UNCHANGED <<outcome, exit_code>>
           ELSE /\ pc' = "crashed"
                /\ outcome' = "escaped"
                /\ exit_code' = 1
                /\ UNCHANGED <<current_history, hist_at_turn>>
    /\ UNCHANGED <<SUMMARIZER_PIPELINE, calls, args, history_file, local_context_content, general_context_content,
                   raw_line, user_input, history_for_api, payload_json, json_response,
                   response_text, current_model, final_prompt_for_api, api_calls,
                   lines_read, warnings, file_at_turn>>

\* input() returns a line: the blank and sentinel tests, then the window, the prompt
\* and the payload of the turn (construct_api_payload is called outside the try)
ReadInput ==
    /\ pc = "input"
    /\ lines_read < MaxLines
    /\ \E line \in InputLines :
         LET stripped == Strip(line)
             window == HistoryForApi(current_history)
             built == construct_api_payload(
                          ChatPrompt(stripped, local_context_content, general_context_content),
                          args.gen, "", args.model, window, <<>>)
         IN  /\ raw_line' = line
             /\ user_input' = stripped
             /\ lines_read' = lines_read + 1
             /\ hist_at_turn' = current_history
             /\ file_at_turn' = history_file
             /\ IF ~Truthy(stripped)
                THEN /\ pc' = "input"
                     /\ outcome' = "blank"
                     /\ UNCHANGED <<history_for_api, payload_json, exit_code>>
                ELSE IF IsExitCommand(stripped)
                THEN /\ pc' = "ended"
                     /\ outcome' = "sentinel"
                     /\ exit_code' = 0
                     /\ UNCHANGED <<history_for_api, payload_json>>
                ELSE IF built.raised = "none"
                THEN /\ pc' = "call"
                     /\ outcome' = "built"
                     /\ history_for_api' = window
                     /\ payload_json' = built.payload
                     /\ UNCHANGED exit_code
                ELSE /\ pc' = "crashed"
                     /\ outcome' = "escaped"
                     /\ exit_code' = 1
                     /\ history_for_api' = window
                     /\ UNCHANGED payload_json
    /\ UNCHANGED <<SUMMARIZER_PIPELINE, calls, args, history_file, current_history, local_context_content,
                   general_context_content, json_response, response_text, current_model,
                   final_prompt_for_api, api_calls, warnings>>

\* input() raises EOFError or KeyboardInterrupt: the loop ends
InputEnds ==
    /\ pc = "input"
    /\ pc' = "ended"
    /\ outcome' = "eof"
    /\ exit_code' = 0
    /\ hist_at_turn' = current_history
    /\ file_at_turn' = history_file
    /\ UNCHANGED <<SUMMARIZER_PIPELINE, calls, args, history_file, current_history, local_context_content,
                   general_context_content, raw_line, user_input, history_for_api,
                   payload_json, json_response, response_text, current_model,
                   final_prompt_for_api, api_calls, lines_read, warnings>>

\* the except clauses of the turn: what is printed for an exception of the try block
TurnFailure(raised) == IF raised = "APIError" THEN "api_error" ELSE "unexpected_error"

CallApi_RecordsUserFirst ==
    /\ pc = "call"
    /\ api_calls' = api_calls + 1
    /\ current_history' = Append(current_history, UserEntry(user_input))
    /\ \E reply \in ServerReplies :
         LET res == call_api(args.model, payload_json, reply)
         IN  IF res.raised = "none"
             THEN /\ json_response' = res.value
                  /\ pc' = "parse"
                  /\ outcome' = "returned"
             ELSE /\ pc' = "input"
                  /\ outcome' = TurnFailure(res.raised)
                  /\ UNCHANGED json_response
    /\ UNCHANGED <<SUMMARIZER_PIPELINE, calls, args, history_file, local_context_content,
                   general_context_content, raw_line, user_input, history_for_api,
                   payload_json, response_text, current_model, final_prompt_for_api,
                   lines_read, warnings, hist_at_turn, file_at_turn, exit_code>>

\* a turn whose failed request is sent a second time
CallApi_ResendsAfterFailure ==
    /\ pc = "call"
    /\ \E reply \in ServerReplies :
         LET res == call_api(args.model, payload_json, reply)
         IN  IF res.raised = "none"
             THEN /\ json_response' = res.value
                  /\ pc' = "parse"
                  /\ outcome' = "returned"
                  /\ api_calls' = api_calls + 1
             ELSE /\ pc' = "input"
                  /\ outcome' = TurnFailure(res.raised)
                  /\ api_calls' = api_calls + 2
                  /\ UNCHANGED json_response
    /\ UNCHANGED <<SUMMARIZER_PIPELINE, calls, args, history_file, current_history, local_context_content,
                   general_context_content, raw_line, user_input, history_for_api,
                   payload_json, response_text, current_model, final_prompt_for_api,
                   lines_read, warnings, hist_at_turn, file_at_turn, exit_code>>

\* client.call_api(args.model, payload_json)
CallApi ==
    /\ pc = "call"
    /\ api_calls' = api_calls + 1
    /\ \E reply \in ServerReplies :
         LET res == call_api(args.model, payload_json, reply)
         IN  IF res.raised = "none"
             THEN /\ json_response' = res.value
                  /\ pc' = "parse"
                  /\ outcome' = "returned"
             ELSE /\ pc' = "input"
                  /\ outcome' = TurnFailure(res.raised)
                  /\ UNCHANGED json_response
    /\ UNCHANGED <<SUMMARIZER_PIPELINE, calls, args, history_file, current_history, local_context_content,
                   general_context_content, raw_line, user_input, history_for_api,
                   payload_json, response_text, current_model, final_prompt_for_api,
                   lines_read, warnings, hist_at_turn, file_at_turn, exit_code>>

\* parse_api_response(json_response), the print and the two appends
ParseResponse ==
    /\ pc = "parse"
    /\ LET res == parse_api_response(json_response)
       IN  IF res.raised = "none"
           THEN /\ response_text' = res.text
                /\ current_history' = AppendTurn(current_history, user_input, res.text,
                                                 local_context_content, general_context_content)
                /\ pc' = "save"
                /\ outcome' = "parsed"
           ELSE /\ pc' = "input"
                /\ outcome' = TurnFailure(res.raised)
                /\ UNCHANGED <<response_text, current_history>>
    /\ UNCHANGED <<SUMMARIZER_PIPELINE, calls, args, history_file, local_context_content, general_context_content,
                   raw_line, user_input, history_for_api, payload_json, json_response,
                   current_model, final_prompt_for_api, api_calls, lines_read, warnings,
                   hist_at_turn, file_at_turn, exit_code>>

---------------------------------------------------------------------------
(* save_local_history: open(filepath, 'w') truncates the file, json.dump   *)
(* then writes the text; an exception of either is caught and a warning is *)
(* printed.  KeyboardInterrupt is no Exception and is not caught.          *)

HistoryToSave_Window(full, window) == window

\* the list handed to save_local_history
HistoryToSave(full, window) == full

\* what a write that stops early leaves in the file
InterruptedWrites == {FileEmpty, FilePartial}

SaveOpen ==
    /\ pc = "save"
    /\ \/ /\ history_file' = FileEmpty
          /\ pc' = "dump"
          /\ UNCHANGED <<outcome, warnings>>
       \/ /\ pc' = "input"
          /\ outcome' = "save_failed"
          /\ warnings' = warnings \cup {"could not save history"}
          /\ UNCHANGED history_file
    /\ UNCHANGED <<SUMMARIZER_PIPELINE, calls, args, current_history, local_context_content, general_context_content,
                   raw_line, user_input, history_for_api, payload_json, json_response,
                   response_text, current_model, final_prompt_for_api, api_calls,
                   lines_read, hist_at_turn, file_at_turn, exit_code>>

SaveDump ==
    /\ pc = "dump"
    /\ pc' = "input"
    /\ \/ /\ history_file' = FileJson(HistoryToSave(current_history, history_for_api))
          /\ outcome' = "saved"
          /\ UNCHANGED warnings
       \/ /\ history_file' \in InterruptedWrites
          /\ outcome' = "save_failed"
          /\ warnings' = warnings \cup {"could not save history"}
    /\ UNCHANGED <<SUMMARIZER_PIPELINE, calls, args, current_history, local_context_content, general_context_content,
                   raw_line, user_input, history_for_api, payload_json, json_response,
                   response_text, current_model, final_prompt_for_api, api_calls,
                   lines_read, hist_at_turn, file_at_turn, exit_code>>

\* KeyboardInterrupt outside input(): it leaves the loop and the process
Interrupt ==
    /\ pc \in {"call", "parse", "save", "dump"}
    /\ pc' = "interrupted"
    /\ outcome' = "interrupted"
    /\ exit_code' = 130
    /\ IF pc = "dump"
       THEN history_file' \in InterruptedWrites
       ELSE UNCHANGED history_file
    /\ UNCHANGED <<SUMMARIZER_PIPELINE, calls, args, current_history, local_context_content, general_context_content,
                   raw_line, user_input, history_for_api, payload_json, json_response,
                   response_text, current_model, final_prompt_for_api, api_calls,
                   lines_read, warnings, hist_at_turn, file_at_turn>>

NextChat ==
    \/ StartChatSession
    \/ ReadInput
    \/ InputEnds
    \/ CallApi
    \/ ParseResponse
    \/ SaveOpen
    \/ SaveDump
    \/ Interrupt

Spec == InitChat /\ [][NextChat]_vars

---------------------------------------------------------------------------
(* Properties of the chat session *)

TurnFailed == pc = "input" /\ outcome \in {"api_error", "unexpected_error"}

\* C1: a turn in which call_api or parse_api_response raises (APIError or any other
\* Exception) leaves the in-memory history and the history file as they were when
\* the turn's line was read: same length, same contents.
C1_FailedTurnLeavesHistory ==
    TurnFailed =>
        /\ Len(current_history) = Len(hist_at_turn)
        /\ current_history = hist_at_turn
        /\ history_file = file_at_turn

\* a turn fails after an earlier turn of the session was recorded and saved
C1_Witness ==
    /\ TurnFailed
    /\ api_calls = 2
    /\ history_file.kind = "json"
    /\ Len(current_history) = 4

\* the pair a successful turn adds: the trimmed line, then the response text
TurnPair ==
    << [role |-> "user", parts |-> <<[text |-> user_input]>>],
       [role |-> "model", parts |-> <<[text |-> response_text]>>] >>

TurnSucceeded == pc \in {"save", "dump"} \/ (pc = "input" /\ outcome \in {"saved", "save_failed"})

\* C2 as stated: a successful turn appends the user entry and the model entry, and
\* the whole history is in the history file before the next line is read.
C2_HistoryWrittenBeforeNextLine ==
    (pc = "input" /\ outcome \in {"saved", "save_failed"}) =>
        /\ current_history = hist_at_turn \o TurnPair
        /\ history_file = [kind |-> "json", data |-> current_history]

\* C2, amended: a successful turn appends exactly two entries, the user entry
\* holding the trimmed line without any context wrapper and the model entry holding
\* the text parse_api_response returned; the whole history is then handed to
\* save_local_history before the next line is read, and the file holds it unless
\* opening or writing the file fails, in which case a warning is printed and the
\* session goes on.
C2_SuccessfulTurnAppendsPair ==
    /\ TurnSucceeded =>
          /\ current_history = hist_at_turn \o TurnPair
          /\ user_input = Strip(raw_line)
          /\ response_text = parse_api_response(json_response).text
    /\ (pc = "input" /\ outcome = "saved") =>
          history_file = [kind |-> "json", data |-> current_history]
    /\ (pc = "input" /\ outcome = "save_failed") =>
          /\ "could not save history" \in warnings
          /\ history_file \in {file_at_turn, FileEmpty, FilePartial}

\* a turn under both contexts is recorded and saved: the entry holds the bare line
C2_Witness ==
    /\ pc = "input"
    /\ outcome = "saved"
    /\ Truthy(local_context_content)
    /\ Truthy(general_context_content)
    /\ raw_line = <<" ", "exit", " ", "now", " ">>
    /\ json_response = RespHello
    /\ current_history = << UserEntry(<<"exit", " ", "now">>),
                            ModelEntry(<<"Hello,", " ", "\n", "world.">>) >>
    /\ history_file.data = current_history

\* C4: the loop ends cleanly, with no API call for that input and the history
\* unchanged, when the trimmed, lower-cased line is 'exit' or 'quit' or when input()
\* raises EOFError or KeyboardInterrupt; an empty line neither ends the loop nor
\* causes an API call.
C4_LoopEndsOnSentinelOrEndOfInput ==
    [][ /\ (lines_read' # lines_read /\ raw_line' \in ExitLines) =>
              /\ pc' = "ended" /\ exit_code' = 0
              /\ api_calls' = api_calls
              /\ current_history' = current_history /\ history_file' = history_file
        /\ (outcome' = "eof" /\ pc = "input") =>
              /\ pc' = "ended" /\ exit_code' = 0
              /\ api_calls' = api_calls
              /\ current_history' = current_history /\ history_file' = history_file
        /\ (lines_read' # lines_read /\ raw_line' \in BlankLines) =>
              /\ pc' = "input"
              /\ api_calls' = api_calls
              /\ current_history' = current_history /\ history_file' = history_file
        /\ (pc = "ended") => (pc' = "ended" /\ api_calls' = api_calls)
      ]_vars

\* a padded, upper-case QUIT ends a session that has recorded a turn
C4_Witness ==
    /\ pc = "ended"
    /\ outcome = "sentinel"
    /\ raw_line = <<" ", "QUIT", " ">>
    /\ api_calls = 1
    /\ Len(current_history) = 2

\* C5: no failure raised while building, sending or interpreting a turn's request
\* ends the session: after a failed turn the loop reads the next line.
C5_NoFailureEndsSession == ~(pc = "crashed" /\ lines_read > 0)

\* C6: an interrupt at any point of a turn leaves the history file complete: the
\* file of before the turn or the JSON text of the new history.
C6_InterruptLeavesCompleteFile ==
    pc = "interrupted" =>
        history_file \in {file_at_turn, [kind |-> "json", data |-> current_history]}

\* C8: the window sent with a request is the most recent entries of the history, in
\* their order, at most 2 * MAX_HISTORY_TURNS of them; the history kept in memory
\* and the history saved are not truncated.
C8_WindowIsRecentSuffix ==
    /\ pc \in {"call", "parse"} =>
          LET h == current_history
              w == history_for_api
          IN  /\ Len(w) <= 2 * MAX_HISTORY_TURNS
              /\ Len(w) = (IF Len(h) <= 2 * MAX_HISTORY_TURNS THEN Len(h) ELSE 2 * MAX_HISTORY_TURNS)
              /\ \A i \in 1..Len(w) : w[i] = h[Len(h) - Len(w) + i]
              /\ Len(payload_json.contents) = Len(w) + 1
              /\ \A i \in 1..Len(w) : payload_json.contents[i] = w[i]
              /\ h = hist_at_turn
    /\ (pc = "input" /\ outcome = "saved") =>
          /\ Len(current_history) = Len(hist_at_turn) + 2
          /\ history_file.data = current_history

\* a request is built on a history of 12 turns: 11 stored and one of this session
C8_Witness ==
    /\ pc = "call"
    /\ Len(current_history) = 2 * MAX_HISTORY_TURNS + 4
    /\ Len(history_for_api) = 2 * MAX_HISTORY_TURNS
    /\ history_for_api[1] = current_history[5]
    /\ history_file.data = current_history

---------------------------------------------------------------------------
(* The single-shot driver: main without --chat *)

\* the files a --file can name: the text of a readable file, or that it is missing
TextFiles ==
    [p \in {"notes.txt", "empty.txt", "gone.txt"} |->
        CASE p = "notes.txt" -> [readable |-> TRUE, content |-> <<"alpha", "\n">>]
          [] p = "empty.txt" -> [readable |-> TRUE, content |-> <<>>]
          [] OTHER -> [readable |-> FALSE, content |-> <<>>]]

FileLabel(file_path) == "Content from file '" \o file_path \o "':"

\* f"Content from file '{file_path}':\n{file_content}\n---"
FileBlock(file_path) ==
    <<FileLabel(file_path), "\n">> \o TextFiles[file_path].content \o <<"\n", "---">>

build_prompt_from_files_SkipsUnreadable(file_paths, base_prompt_text) ==
    LET readable == SelectSeq(file_paths, LAMBDA p : TextFiles[p].readable)
    IN  IF readable = <<>>
        THEN [exited |-> FALSE, text |-> base_prompt_text]
        ELSE [exited |-> FALSE,
              text |-> Join(<<"\n", "\n">>, [i \in DOMAIN readable |-> FileBlock(readable[i])])
                         \o <<"\n", "\n", "User Prompt:", "\n">> \o base_prompt_text]

\* [exited |-> TRUE] when a file cannot be read (exit(1)), else the prompt text
build_prompt_from_files(file_paths, base_prompt_text) ==
    IF \E i \in DOMAIN file_paths : ~TextFiles[file_paths[i]].readable
    THEN [exited |-> TRUE, text |-> <<>>]
    ELSE IF file_paths = <<>>
    THEN [exited |-> FALSE, text |-> base_prompt_text]
    ELSE [exited |-> FALSE,
          text |-> Join(<<"\n", "\n">>, [i \in DOMAIN file_paths |-> FileBlock(file_paths[i])])
                     \o <<"\n", "\n", "User Prompt:", "\n">> \o base_prompt_text]

\* " ".join(args.prompt) and "".join(args.prompt)
JoinWords(sep, words) == Join(sep, [i \in DOMAIN words |-> <<words[i]>>])

ComposePrompt_GeneralInside(base, local, general, generation_mode, has_file) ==
    LET with_general ==
            IF ~Truthy(general) THEN base
            ELSE IF generation_mode
            THEN <<"General Context for Image Gen:", " ">> \o general \o <<"\n", "---", "\n">> \o base
            ELSE <<"Using general context:", "\n">> \o general \o <<"\n", "---", "\n">> \o base
    IN  IF ~Truthy(local) THEN with_general
        ELSE IF generation_mode
        THEN <<"Local Context for Image Gen:", " ">> \o local \o <<"\n", "---", "\n">> \o with_general
        ELSE IF has_file
        THEN <<"Using local context:", "\n">> \o local \o <<"\n", "---", "\n">> \o with_general
        ELSE <<"Using local context:", "\n">> \o local
               \o <<"\n", "---", "\n", "User Prompt:", "\n">> \o with_general

\* final_prompt_for_api: the local context wraps the base prompt, the general context the result
ComposePrompt(base, local, general, generation_mode, has_file) ==
    LET with_local ==
            IF ~Truthy(local) THEN base
            ELSE IF generation_mode
            THEN <<"Local Context for Image Gen:", " ">> \o local \o <<"\n", "---", "\n">> \o base
            ELSE IF has_file
            THEN <<"Using local context:", "\n">> \o local \o <<"\n", "---", "\n">> \o base
            ELSE <<"Using local context:", "\n">> \o local
                   \o <<"\n", "---", "\n", "User Prompt:", "\n">> \o base
    IN  IF ~Truthy(general) THEN with_local
        ELSE IF generation_mode
        THEN <<"General Context for Image Gen:", " ">> \o general \o <<"\n", "---", "\n">> \o with_local
        ELSE <<"Using general context:", "\n">> \o general \o <<"\n", "---", "\n">> \o with_local

ResolveModel_KeepsUserModel(model, generation_mode, image_path) ==
    [model |-> model, warning |-> {}]

\* the model the request goes to, and the warning printed when it is switched
ResolveModel(model, generation_mode, image_path) ==
    IF generation_mode
    THEN IF model \notin SUPPORTED_IMAGE_GENERATION_MODELS
         THEN [model |-> DEFAULT_IMAGE_GENERATION_MODEL, warning |-> {"switched to image generation model"}]
         ELSE [model |-> model, warning |-> {}]
    ELSE IF image_path # ""
    THEN IF model \notin SUPPORTED_MULTIMODAL_MODELS
         THEN [model |-> DEFAULT_VISION_MODEL, warning |-> {"switched to vision model"}]
         ELSE [model |-> model, warning |-> {}]
    ELSE IF model \notin SUPPORTED_TEXT_MODELS /\ model \notin SUPPORTED_MULTIMODAL_MODELS
    THEN [model |-> DEFAULT_TEXT_MODEL, warning |-> {"switched to text model"}]
    ELSE [model |-> model, warning |-> {}]

\* the warnings about arguments --generate makes redundant
IgnoredWithGenerate(a) ==
    (IF Truthy(Strip(JoinWords(<<>>, a.prompt))) THEN {"prompt ignored"} ELSE {})
      \cup (IF a.file # <<>> THEN {"file ignored"} ELSE {})
      \cup (IF a.image_path # "" THEN {"image path ignored"} ELSE {})

MainArgs ==
    [prompt : { <<"hello">>, <<"two", "words">> },
     file : { <<>>, <<"notes.txt", "empty.txt">>, <<"gone.txt">> },
     image_path : {"", "cat.jpg", "gone.jpg"},
     generate : { <<>>, <<"a", " ", "cat">> },
     model : {DEFAULT_TEXT_MODEL, "gemini-1.0-pro", "imagen-2", "my-model"},
     gen : {DefaultGen},
     api_key : {TRUE},
     list_models : {FALSE},
     clear_local_history : {FALSE},
     unrecognized : { <<>> }]
    \cup
    [prompt : { <<>>, <<" ">>, <<"hello">> },
     file : { <<>> },
     image_path : {""},
     generate : { <<>>, <<" ">>, <<"a", " ", "cat">> },
     model : {DEFAULT_TEXT_MODEL},
     gen : {DefaultGen},
     api_key : BOOLEAN,
     list_models : BOOLEAN,
     clear_local_history : BOOLEAN,
     unrecognized : { <<>>, <<"--pdf-audio-summary">> }]

MainFiles ==
    { FileMissing,
      FileJson(PastHistory(MAX_HISTORY_TURNS * 2 + 2)),
      FileJson(<< [jstr |-> "x"] >>),
      [kind |-> "dict", data |-> <<"a">>] }

InitMain ==
    /\ pc = "main"
    /\ args \in MainArgs
    /\ history_file \in MainFiles
    /\ current_history = <<>>
    /\ local_context_content \in { load_context_file(c) : c \in LocalContextFiles }
    /\ general_context_content \in { load_context_file(c) : c \in GeneralContextFiles }
    /\ raw_line = <<>>
    /\ user_input = <<>>
    /\ history_for_api = <<>>
    /\ payload_json = NoPayload
    /\ json_response = NoResponse
    /\ response_text = <<>>
    /\ current_model = args.model
    /\ final_prompt_for_api = <<>>
    /\ api_calls = 0
    /\ lines_read = 0
    /\ outcome = "none"
    /\ warnings = {}
    /\ hist_at_turn = <<>>
    /\ file_at_turn = history_file
    /\ exit_code = -1
    /\ SUMMARIZER_PIPELINE = "None"
    /\ calls = <<>>

\* parse_arguments (an option the parser does not define ends the run with the
\* usage message and status 2), load_api_key, the utility flags and the validation
\* of the prompt: every exit that comes before the history is loaded
MainPreflight ==
    /\ pc = "main"
    /\ LET no_prompt == args.prompt = <<>> \/ ~Truthy(Strip(JoinWords(<<>>, args.prompt)))
           verdict ==
               IF args.unrecognized # <<>> THEN [code |-> 2, why |-> "unrecognized arguments"]
               ELSE IF ~args.api_key THEN [code |-> 1, why |-> "no api key"]
               ELSE IF args.list_models THEN [code |-> 0, why |-> "listed models"]
               ELSE IF args.clear_local_history THEN [code |-> 0, why |-> "cleared"]
               ELSE IF ~Truthy(args.generate) /\ no_prompt
               THEN [code |-> 1, why |-> "empty prompt"]
               ELSE IF Truthy(args.generate) /\ ~Truthy(Strip(args.generate))
               THEN [code |-> 1, why |-> "empty generate prompt"]
               ELSE [code |-> -1, why |-> "valid"]
       IN  /\ outcome' = verdict.why
           /\ exit_code' = verdict.code
           /\ pc' = IF verdict.code = -1 THEN "build" ELSE "exited"
           /\ history_file' = IF verdict.why = "cleared" THEN FileMissing ELSE history_file
    /\ UNCHANGED <<SUMMARIZER_PIPELINE, calls, args, current_history, local_context_content, general_context_content,
                   raw_line, user_input, history_for_api, payload_json, json_response,
                   response_text, current_model, final_prompt_for_api, api_calls,
                   lines_read, warnings, hist_at_turn, file_at_turn>>

\* the history and its window, the model, the prompt and the payload
MainBuildRequest ==
    /\ pc = "build"
    /\ LET loaded == load_local_history(history_file)
           generation_mode == Truthy(args.generate)
           user_prompt_for_history ==
               IF generation_mode THEN args.generate ELSE JoinWords(<<" ">>, args.prompt)
           from_files ==
               IF generation_mode THEN [exited |-> FALSE, text |-> args.generate]
               ELSE build_prompt_from_files(args.file, user_prompt_for_history)
           resolved == ResolveModel(args.model, generation_mode, args.image_path)
           processed_image_path == IF generation_mode THEN "" ELSE args.image_path
           prompt == ComposePrompt(from_files.text, local_context_content,
                                   general_context_content, generation_mode, args.file # <<>>)
           window == HistoryForApi(loaded.items)
           built == construct_api_payload(prompt, args.gen, processed_image_path, resolved.model,
                                          window, IF generation_mode THEN args.generate ELSE <<>>)
       IN  IF loaded.kind # "list"
           THEN \* current_history[-20:] raises outside the try
                /\ pc' = "crashed" /\ outcome' = "escaped" /\ exit_code' = 1
                /\ UNCHANGED <<current_history, hist_at_turn, history_for_api, user_input,
                               current_model, warnings, final_prompt_for_api, payload_json>>
           ELSE /\ current_history' = loaded.items
                /\ hist_at_turn' = loaded.items
                /\ history_for_api' = window
                /\ user_input' = user_prompt_for_history
                /\ IF from_files.exited
                   THEN /\ pc' = "exited" /\ outcome' = "file error" /\ exit_code' = 1
                        /\ UNCHANGED <<current_model, warnings, final_prompt_for_api, payload_json>>
                   ELSE /\ current_model' = resolved.model
                        /\ warnings' = resolved.warning
                              \cup (IF generation_mode THEN IgnoredWithGenerate(args) ELSE {})
                        /\ final_prompt_for_api' = prompt
                        /\ IF built.raised = "none"
                           THEN /\ payload_json' = built.payload
                                /\ pc' = "call" /\ outcome' = "built"
                                /\ UNCHANGED exit_code
                           ELSE /\ pc' = "exited" /\ outcome' = TurnFailure(built.raised)
                                /\ exit_code' = 1
                                /\ UNCHANGED payload_json
    /\ UNCHANGED <<SUMMARIZER_PIPELINE, calls, args, history_file, local_context_content, general_context_content,
                   raw_line, json_response, response_text, api_calls, lines_read, file_at_turn>>

\* client.call_api(current_model, payload_json)
MainCallApi ==
    /\ pc = "call"
    /\ api_calls' = api_calls + 1
    /\ \E reply \in ServerReplies :
         LET res == call_api(current_model, payload_json, reply)
         IN  IF res.raised = "none"
             THEN /\ json_response' = res.value
                  /\ pc' = "parse" /\ outcome' = "returned"
                  /\ UNCHANGED exit_code
             ELSE /\ pc' = "exited" /\ outcome' = TurnFailure(res.raised)
                  /\ exit_code' = 1
                  /\ UNCHANGED json_response
    /\ UNCHANGED <<SUMMARIZER_PIPELINE, calls, args, history_file, current_history, local_context_content,
                   general_context_content, raw_line, user_input, history_for_api,
                   payload_json, response_text, current_model, final_prompt_for_api,
                   lines_read, warnings, hist_at_turn, file_at_turn>>

\* parse_api_response(json_response, generation_prompt_text=...), the print, the two
\* appends and save_local_history
MainInterpretAndRecord ==
    /\ pc = "parse"
    /\ LET res == parse_api_response_kw(json_response, args.generate)
       IN  IF res.raised = "none"
           THEN /\ response_text' = res.text
                /\ current_history' = Append(Append(current_history, UserEntry(user_input)),
                                             ModelEntry(res.text))
                /\ \/ /\ history_file' = FileJson(current_history')
                      /\ outcome' = "saved"
                      /\ UNCHANGED warnings
                   \/ /\ history_file' \in {history_file} \cup InterruptedWrites
                      /\ outcome' = "save_failed"
                      /\ warnings' = warnings \cup {"could not save history"}
                /\ pc' = "exited"
                /\ exit_code' = 0
           ELSE /\ pc' = "exited" /\ outcome' = TurnFailure(res.raised)
                /\ exit_code' = 1
                /\ UNCHANGED <<response_text, current_history, history_file, warnings>>
    /\ UNCHANGED <<SUMMARIZER_PIPELINE, calls, args, local_context_content, general_context_content, raw_line,
                   user_input, history_for_api, payload_json, json_response, current_model,
                   final_prompt_for_api, api_calls, lines_read, hist_at_turn, file_at_turn>>

NextMain ==
    \/ MainPreflight
    \/ MainBuildRequest
    \/ MainCallApi
    \/ MainInterpretAndRecord

SpecMain == InitMain /\ [][NextMain]_vars

---------------------------------------------------------------------------
(* Properties of the single-shot driver *)

\* replies whose first candidate carries text parts
UsableTextResponses == {RespHello, RespPadded, RespBlockedWithText}

\* C3: a single-shot run appends and saves the pair (raw user prompt, response
\* text) exactly when the turn completes: whenever call_api returned a response
\* that carries usable text the pair is in the history and in the file, and a
\* failed turn appends and saves nothing.
C3_PairSavedWhenTurnCompletes ==
    /\ (pc = "exited" /\ api_calls = 1 /\ json_response \in UsableTextResponses) =>
          /\ Len(current_history) = Len(hist_at_turn) + 2
          /\ current_history[Len(current_history) - 1]
                = [role |-> "user", parts |-> <<[text |-> user_input]>>]
          /\ current_history[Len(current_history)].role = "model"
          /\ history_file = [kind |-> "json", data |-> current_history]
    /\ (pc = "exited" /\ exit_code = 1) =>
          /\ current_history = hist_at_turn
          /\ history_file = file_at_turn

GeneralLabel == "Using general context:"

LocalLabel == "Using local context:"

UserLabel == "User Prompt:"

IsSectionLabel(tok) ==
    tok \in {GeneralLabel, LocalLabel, UserLabel} \cup { FileLabel(f) : f \in DOMAIN TextFiles }

SectionLabels(prompt) == SelectSeq(prompt, IsSectionLabel)

\* the tokens of the texts of a well-formed history
HistoryTokens(h) ==
    UNION { { h[i].parts[1].text[k] : k \in DOMAIN h[i].parts[1].text } : i \in DOMAIN h }

PromptComposed == pc = "call" /\ ~Truthy(args.generate)

NonEmptyFiles == SelectSeq(args.file, LAMBDA f : TextFiles[f].content # <<>>)

\* C7 as stated: the composed prompt holds the present sections in the order
\* general context, local context, history, file text, user input, each under its
\* label, and neither label nor body of an absent or empty section.
C7_LabelledSectionsInOrder ==
    PromptComposed =>
        /\ SectionLabels(final_prompt_for_api)
             = (IF Truthy(general_context_content) THEN <<GeneralLabel>> ELSE <<>>)
               \o (IF Truthy(local_context_content) THEN <<LocalLabel>> ELSE <<>>)
               \o [i \in DOMAIN NonEmptyFiles |-> FileLabel(NonEmptyFiles[i])]
               \o <<UserLabel>>
        /\ history_for_api # <<>> =>
             \E i \in DOMAIN final_prompt_for_api :
                 final_prompt_for_api[i] \in HistoryTokens(history_for_api)

\* C7, amended: in a single-shot run without --generate the composed prompt holds
\* the present sections in the order general context, local context, file text,
\* user input, and no history (the window is sent as the turns before the prompt).
\* The general and the local context are under their labels, every file given is
\* under its own label (an empty file too), and the user input is under
\* 'User Prompt:' only when a local context or a file is present.  An absent or
\* empty context gives neither label nor body.
C7_PromptSections ==
    PromptComposed =>
        LET prompt == final_prompt_for_api
            g == general_context_content
            l == local_context_content
            u == JoinWords(<<" ">>, args.prompt)
            after_g == IF Truthy(g) THEN 2 + Len(g) + 3 ELSE 0
            turn == payload_json.contents[Len(payload_json.contents)]
        IN  /\ SectionLabels(prompt)
                 = (IF Truthy(g) THEN <<GeneralLabel>> ELSE <<>>)
                   \o (IF Truthy(l) THEN <<LocalLabel>> ELSE <<>>)
                   \o [i \in DOMAIN args.file |-> FileLabel(args.file[i])]
                   \o (IF Truthy(l) \/ args.file # <<>> THEN <<UserLabel>> ELSE <<>>)
            /\ Truthy(g) => SubSeq(prompt, 1, 2 + Len(g)) = <<GeneralLabel, "\n">> \o g
            /\ Truthy(l) => SubSeq(prompt, after_g + 1, after_g + 2 + Len(l)) = <<LocalLabel, "\n">> \o l
            /\ SubSeq(prompt, Len(prompt) - Len(u) + 1, Len(prompt)) = u
            /\ \A i \in DOMAIN prompt : prompt[i] \notin HistoryTokens(history_for_api)
            /\ Len(payload_json.contents) = Len(history_for_api) + 1
            /\ turn.parts[1] = [text |-> prompt]

\* both contexts, two files (one empty) and a stored history are present
C7_Witness ==
    /\ PromptComposed
    /\ Truthy(general_context_content)
    /\ Truthy(local_context_content)
    /\ args.file = <<"notes.txt", "empty.txt">>
    /\ args.prompt = <<"two", "words">>
    /\ Len(history_for_api) = 2 * MAX_HISTORY_TURNS
    /\ final_prompt_for_api
         = << "Using general context:", "\n", "Be brief.", "\n", "---", "\n",
              "Using local context:", "\n", "Answer in Spanish.", "\n", "---", "\n",
              "Content from file 'notes.txt':", "\n", "alpha", "\n", "\n", "---", "\n", "\n",
              "Content from file 'empty.txt':", "\n", "\n", "---", "\n", "\n",
              "User Prompt:", "\n", "two", " ", "words" >>

---------------------------------------------------------------------------
(* construct_api_payload as a function of its arguments *)

OtherGen == [temperature |-> 2, max_output_tokens |-> 256, top_p |-> 9, top_k |-> 40]

PayloadInputs ==
    [prompt_text : { <<>>, <<"hello">> },
     gen : {DefaultGen, OtherGen},
     image_path : {"", "cat.jpg", "gone.jpg", "locked.jpg"},
     model_name : {"gemini-1.5-flash", "gemini-1.5-pro-latest", "gemini-1.0-pro", "imagen-2", "my-model"},
     history : { <<>>, PastHistory(2), << [jstr |-> "x"] >> },
     generation_prompt : { <<>>, <<"a", " ", "cat">> }]

InitPayload ==
    /\ pc = "inputs"
    /\ args \in PayloadInputs
    /\ history_file = FileMissing
    /\ current_history = <<>>
    /\ local_context_content = <<>>
    /\ general_context_content = <<>>
    /\ raw_line = <<>>
    /\ user_input = <<>>
    /\ history_for_api = args.history
    /\ payload_json = NoPayload
    /\ json_response = NoResponse
    /\ response_text = <<>>
    /\ current_model = args.model_name
    /\ final_prompt_for_api = args.prompt_text
    /\ api_calls = 0
    /\ lines_read = 0
    /\ outcome = "not called"
    /\ warnings = {}
    /\ hist_at_turn = <<>>
    /\ file_at_turn = FileMissing
    /\ exit_code = -1
    /\ SUMMARIZER_PIPELINE = "None"
    /\ calls = <<>>

BuildPayload ==
    /\ pc = "inputs"
    /\ LET built == construct_api_payload(args.prompt_text, args.gen, args.image_path,
                                          args.model_name, args.history, args.generation_prompt)
       IN  /\ payload_json' = built.payload
           /\ outcome' = built.raised
    /\ pc' = "built"
    /\ UNCHANGED <<SUMMARIZER_PIPELINE, calls, args, history_file, current_history, local_context_content,
                   general_context_content, raw_line, user_input, history_for_api,
                   json_response, response_text, current_model, final_prompt_for_api,
                   api_calls, lines_read, warnings, hist_at_turn, file_at_turn, exit_code>>

NextPayload == BuildPayload

SpecPayload == InitPayload /\ [][NextPayload]_vars

\* the three request shapes, read off the payload
CurrentTurn == payload_json.contents[Len(payload_json.contents)]

IsGenerationShape ==
    /\ {"tools", "tool_config"} \subseteq DOMAIN payload_json
    /\ Len(payload_json.contents) = 1

IsMultimodalShape ==
    /\ "tools" \notin DOMAIN payload_json
    /\ \E i \in DOMAIN CurrentTurn.parts : "inline_data" \in DOMAIN CurrentTurn.parts[i]

IsPlainTextShape ==
    /\ "tools" \notin DOMAIN payload_json
    /\ Len(CurrentTurn.parts) = 1
    /\ DOMAIN CurrentTurn.parts[1] = {"text"}

PayloadEmitted == pc = "built" /\ outcome = "none"

\* C9: the payload emitted has exactly one of three shapes: the tool-declared
\* image-generation shape iff a generation prompt is supplied and the model
\* generates images; otherwise the multimodal shape iff an image path is supplied
\* and the model is multimodal; otherwise the plain-text shape with one text part.
\* The function emits nothing only when it raises in the second or third case.
C9_ShapeByPrecedence ==
    LET generation == args.generation_prompt # <<>> /\ args.model_name \in {"imagen-2"}
        multimodal == /\ ~generation
                      /\ args.image_path # ""
                      /\ args.model_name \in {"gemini-1.5-pro-latest", "gemini-1.5-flash"}
    IN  /\ PayloadEmitted =>
              /\ IsGenerationShape <=> generation
              /\ IsMultimodalShape <=> multimodal
              /\ IsPlainTextShape <=> (~generation /\ ~multimodal)
        /\ (pc = "built" /\ outcome # "none") => ~generation

\* a generation prompt and an image path with a model that does neither: plain text
C9_Witness ==
    /\ PayloadEmitted
    /\ args.generation_prompt # <<>>
    /\ args.image_path = "cat.jpg"
    /\ args.model_name = "gemini-1.0-pro"
    /\ IsPlainTextShape

\* C10 as stated: in the multimodal variant the parts of the current turn are
\* [image part, text part].
C10_ImageBeforeText ==
    (PayloadEmitted /\ IsMultimodalShape) =>
        /\ Len(CurrentTurn.parts) = 2
        /\ "inline_data" \in DOMAIN CurrentTurn.parts[1]
        /\ "text" \in DOMAIN CurrentTurn.parts[2]

\* C10, amended: in the multimodal variant the parts of the current turn are
\* exactly [text part, image part]: the text first, the one inline image of the
\* caller (sent as image/jpeg) second.
C10_TextBeforeImage ==
    (PayloadEmitted /\ IsMultimodalShape) =>
        /\ Len(CurrentTurn.parts) = 2
        /\ CurrentTurn.parts[1] = [text |-> IF args.prompt_text = <<>> THEN <<" ">> ELSE args.prompt_text]
        /\ DOMAIN CurrentTurn.parts[2] = {"inline_data"}
        /\ CurrentTurn.parts[2].inline_data.mime_type = "image/jpeg"
        /\ CurrentTurn.role = "user"

\* a readable image is sent to a multimodal model after two turns of history
C10_Witness ==
    /\ PayloadEmitted
    /\ IsMultimodalShape
    /\ args.image_path = "cat.jpg"
    /\ args.prompt_text = <<"hello">>
    /\ Len(payload_json.contents) = 3

FourHarmCategories ==
    << "HARM_CATEGORY_HARASSMENT", "HARM_CATEGORY_HATE_SPEECH",
       "HARM_CATEGORY_SEXUALLY_EXPLICIT", "HARM_CATEGORY_DANGEROUS_CONTENT" >>

FixedSafetyBlock ==
    [i \in 1..4 |-> [category |-> FourHarmCategories[i], threshold |-> "BLOCK_MEDIUM_AND_ABOVE"]]

FullGenerationBlock ==
    [temperature |-> args.gen.temperature, topP |-> args.gen.top_p,
     topK |-> args.gen.top_k, maxOutputTokens |-> args.gen.max_output_tokens]

\* C11 as stated: every request variant carries the same generation block, holding
\* the supplied temperature, topP, topK and maxOutputTokens, and the same safety
\* block of four harm categories at BLOCK_MEDIUM_AND_ABOVE.
C11_SameBlocksInEveryVariant ==
    PayloadEmitted =>
        /\ payload_json.generationConfig = FullGenerationBlock
        /\ payload_json.safetySettings = FixedSafetyBlock

\* C11, amended: every variant carries the same safety block of four harm
\* categories at BLOCK_MEDIUM_AND_ABOVE; the multimodal and the plain-text variant
\* carry the supplied temperature, topP, topK and maxOutputTokens, the
\* image-generation variant carries the supplied temperature alone.
C11_BlocksByVariant ==
    PayloadEmitted =>
        /\ payload_json.safetySettings = FixedSafetyBlock
        /\ IsGenerationShape => payload_json.generationConfig = [temperature |-> args.gen.temperature]
        /\ ~IsGenerationShape => payload_json.generationConfig = FullGenerationBlock

\* an image-generation request is built from parameters other than the defaults
C11_Witness ==
    /\ PayloadEmitted
    /\ IsGenerationShape
    /\ args.gen = OtherGen
    /\ DOMAIN payload_json.generationConfig = {"temperature"}

\* the image of the call is in the payload
ImageCarried ==
    \E i \in DOMAIN CurrentTurn.parts : "inline_data" \in DOMAIN CurrentTurn.parts[i]

---------------------------------------------------------------------------
(* The requests of a chat session *)

\* C13: a step sends at most one request, with a timeout of 60 seconds; a request
\* is sent only for a line just read and the turn leaves the call whether the
\* request fails or not, so that no line is ever sent twice.
C13_OneRequestPerTurn ==
    [][ /\ api_calls' \in {api_calls, api_calls + 1}
        /\ api_calls' = api_calls + 1 => (pc = "call" /\ pc' \in {"parse", "input"})
        /\ pc' = "call" => (pc = "input" /\ lines_read' = lines_read + 1)
        /\ api_calls' <= lines_read'
        /\ pc = "call" =>
              \A reply \in ServerReplies :
                  call_api(args.model, payload_json, reply).request
                      = [url |-> ApiUrl(args.model), data |-> payload_json, timeout |-> 60]
      ]_vars

\* two lines were read, the request of each failed, and two requests were sent
C13_Witness ==
    /\ TurnFailed
    /\ lines_read = 2
    /\ api_calls = 2
    /\ current_history = hist_at_turn

---------------------------------------------------------------------------
(* call_api and parse_api_response as functions of the server's reply *)

MaxParts == 2

FunctionCallPart ==
    [functionCall |-> [name |-> "generate_image", args |-> "{\"prompt\": \"a cat\"}"]]

PartChoices ==
    { TextPart(<<"Hello,", " ">>), TextPart(<<"world.">>), TextPart(<<>>), TextPart(<<" ">>),
      FunctionCallPart,
      [inlineData |-> [mimeType |-> <<"image", "png">>, data |-> "aGk="]],
      [inlineData |-> [mimeType |-> <<"application", "pdf">>, data |-> "aGk="]],
      [fileData |-> [fileUri |-> "gs://bucket/cat.png"]] }

PartSeqs == UNION { [1..k -> PartChoices] : k \in 0..MaxParts }

PromptFeedback == [blockReason |-> "SAFETY"]

ClientResponses ==
    { [candidates |-> << [content |-> [parts |-> ps], finishReason |-> f] >>] :
          ps \in PartSeqs, f \in {"STOP", "SAFETY"} }
      \cup { [candidates |-> << [content |-> [parts |-> ps], finishReason |-> f] >>,
              promptFeedback |-> PromptFeedback] :
                 ps \in PartSeqs, f \in {"STOP", "SAFETY"} }
      \cup Responses
      \cup { [candidates |-> <<>>],
             [candidates |-> << [content |-> [parts |-> << TextPart(<<"a">>) >>]],
                                [finishReason |-> "STOP"],
                                [content |-> [parts |-> << TextPart(<<"b">>) >>]] >>] }

\* bodies of an answer with a 4xx or 5xx status
ErrorBodies ==
    { QuotaBody,
      [text |-> "{\"error\": {\"code\": 429}}", json |-> [error |-> [code |-> [jnum |-> 429]]]],
      [text |-> "{\"detail\": \"x\"}", json |-> [detail |-> [jstr |-> <<"x">>]]],
      [text |-> "[]", json |-> [jlist |-> <<>>]],
      [text |-> "{\"error\": \"quota\"}", json |-> [error |-> [jstr |-> <<"quota">>]]],
      [text |-> "{\"error\": \"message too long\"}",
       json |-> [error |-> [jstr |-> <<"message", " ", "too", " ", "long">>]]],
      [text |-> "{\"error\": null}", json |-> [error |-> [jnull |-> TRUE]]],
      [text |-> "404", json |-> [jnum |-> 404]],
      [text |-> "<html>Bad Gateway</html>"] }

HttpStatuses == { [status |-> 400, reason |-> "Bad Request"],
                  [status |-> 429, reason |-> "Too Many Requests"],
                  [status |-> 502, reason |-> "Bad Gateway"] }

ClientReplies ==
    { [kind |-> "ok", body |-> r] : r \in ClientResponses }
      \cup { [kind |-> k] : k \in {"ok_not_json", "connection_error", "timeout",
                                   "request_exception"} }
      \cup { [kind |-> "http_error", status |-> st.status, reason |-> st.reason, body |-> b] :
                 st \in HttpStatuses, b \in ErrorBodies }

InitClient ==
    /\ pc = "request"
    /\ args \in { [model |-> DEFAULT_TEXT_MODEL, reply |-> r] : r \in ClientReplies }
    /\ history_file = FileMissing
    /\ current_history = <<>>
    /\ local_context_content = <<>>
    /\ general_context_content = <<>>
    /\ raw_line = <<>>
    /\ user_input = <<>>
    /\ history_for_api = <<>>
    /\ payload_json = ChatPayload(<<>>, << TextPart(<<"hi">>) >>, DefaultGen)
    /\ json_response = NoResponse
    /\ response_text = <<>>
    /\ current_model = args.model
    /\ final_prompt_for_api = <<"hi">>
    /\ api_calls = 0
    /\ lines_read = 0
    /\ outcome = "not called"
    /\ warnings = {}
    /\ hist_at_turn = <<>>
    /\ file_at_turn = FileMissing
    /\ exit_code = -1
    /\ SUMMARIZER_PIPELINE = "None"
    /\ calls = <<>>

\* client.call_api(current_model, payload_json)
SendRequest ==
    /\ pc = "request"
    /\ api_calls' = api_calls + 1
    /\ LET res == call_api(current_model, payload_json, args.reply)
       IN  /\ outcome' = res.raised
           /\ json_response' = res.value
           /\ pc' = IF res.raised = "none" THEN "interpret" ELSE "failed"
    /\ UNCHANGED <<SUMMARIZER_PIPELINE, calls, args, history_file, current_history, local_context_content,
                   general_context_content, raw_line, user_input, history_for_api,
                   payload_json, response_text, current_model, final_prompt_for_api,
                   lines_read, warnings, hist_at_turn, file_at_turn, exit_code>>

\* parse_api_response(json_response)
InterpretResponse ==
    /\ pc = "interpret"
    /\ LET res == parse_api_response(json_response)
       IN  /\ outcome' = res.raised
           /\ response_text' = res.text
    /\ pc' = "interpreted"
    /\ UNCHANGED <<SUMMARIZER_PIPELINE, calls, args, history_file, current_history, local_context_content,
                   general_context_content, raw_line, user_input, history_for_api,
                   payload_json, json_response, current_model, final_prompt_for_api,
                   api_calls, lines_read, warnings, hist_at_turn, file_at_turn, exit_code>>

NextClient == SendRequest \/ InterpretResponse

SpecClient == InitClient /\ [][NextClient]_vars

InMessage(message, piece) == \E i \in DOMAIN message : message[i] = piece

\* the request of this state failed in transport: no 2xx answer came back
TransportFailed ==
    /\ pc = "failed"
    /\ args.reply.kind \in {"connection_error", "timeout", "http_error", "request_exception"}

\* the error body is JSON of the shape {"error": {"message": ...}}
HasServiceMessage(body) ==
    /\ "json" \in DOMAIN body
    /\ IsJsonObject(body.json)
    /\ "error" \in DOMAIN body.json
    /\ IsJsonObject(body.json.error)
    /\ "message" \in DOMAIN body.json.error

\* C14: every transport failure is raised as an APIError of exactly one class:
\* connectivity, timeout, HTTP status (the message carries the status code and the
\* service's error.message when the body is JSON of that shape, otherwise the raw
\* body text) or other.
C14_TransportFailureClassified ==
    TransportFailed =>
        LET res == call_api(current_model, payload_json, args.reply)
        IN  /\ outcome = "APIError"
            /\ res.failure = CASE args.reply.kind = "connection_error" -> "connectivity"
                               [] args.reply.kind = "timeout" -> "timeout"
                               [] args.reply.kind = "http_error" -> "http"
                               [] OTHER -> "other"
            /\ args.reply.kind = "http_error" =>
                  /\ InMessage(res.message, ToString(args.reply.status))
                  /\ IF HasServiceMessage(args.reply.body)
                     THEN InMessage(res.message, args.reply.body.json.error.message)
                     ELSE InMessage(res.message, args.reply.body.text)

\* C15: call_api returns the parsed response or raises APIError; no other
\* exception leaves it, whatever the server replies.
C15_ReturnsOrRaisesAPIError ==
    pc \in {"failed", "interpret"} =>
        /\ outcome \in {"none", "APIError"}
        /\ outcome = "none" <=> json_response # NoResponse

\* the parts of all candidates, in arrival order
RECURSIVE AllParts(_)
AllParts(candidates) ==
    IF candidates = <<>> THEN <<>>
    ELSE (IF CandidateHasParts(Head(candidates)) THEN Head(candidates).content.parts ELSE <<>>)
           \o AllParts(Tail(candidates))

RECURSIVE Concatenation(_)
Concatenation(parts) ==
    IF parts = <<>> THEN <<>>
    ELSE (IF "text" \in DOMAIN Head(parts) THEN Head(parts).text ELSE <<>>)
           \o Concatenation(Tail(parts))

Interpreted == pc = "interpreted" /\ "candidates" \in DOMAIN json_response

OnlyTextParts ==
    \A i \in DOMAIN AllParts(json_response.candidates) :
        DOMAIN AllParts(json_response.candidates)[i] = {"text"}

\* C16: the text of a response whose parts carry text is the concatenation of the
\* parts' text, in arrival order with nothing between them, and no image is saved:
\* "Hello, " and "world." give "Hello, world.".
C16_TextIsConcatenation ==
    (Interpreted /\ outcome = "none" /\ OnlyTextParts) =>
        /\ response_text = Concatenation(AllParts(json_response.candidates))
        /\ ~parse_api_response(json_response).image_saved

\* the response with the finish reason of its first candidate replaced
WithFinishReason(response, reason) ==
    [response EXCEPT !.candidates[1] =
        [k \in DOMAIN response.candidates[1] \cup {"finishReason"} |->
            IF k = "finishReason" THEN reason ELSE response.candidates[1][k]]]

\* the only candidate finished for safety and carries no text
SafetyFinishWithoutText ==
    /\ Interpreted
    /\ Len(json_response.candidates) = 1
    /\ "jstr" \notin DOMAIN json_response.candidates[1]
    /\ "finishReason" \in DOMAIN json_response.candidates[1]
    /\ json_response.candidates[1].finishReason = "SAFETY"
    /\ \A i \in DOMAIN AllParts(json_response.candidates) :
           AllParts(json_response.candidates)[i] = TextPart(<<>>)

\* C17: a response whose only candidate finished for safety without text ends in
\* an outcome of its own, not the one an ill-shaped response ends in, with no text
\* and no image saved.
C17_SafetyFinishIsBlocked ==
    SafetyFinishWithoutText =>
        LET res == parse_api_response(json_response)
        IN  /\ res.raised # "none"
            /\ response_text = <<>>
            /\ ~res.image_saved
            /\ res # parse_api_response(WithFinishReason(json_response, "STOP"))

\* C19: a successful return shows something: a text, a saved image or the record
\* of a function call; and the empty-result error is raised only when the parts
\* left no text, no image and no such record.
C19_NeverReturnsEmpty ==
    Interpreted =>
        LET res == parse_api_response(json_response)
            acc == ProcessCandidates([texts |-> <<>>, image_saved |-> FALSE, raised |-> "none",
                                      error |-> "none"], json_response.candidates, 0)
        IN  /\ res.raised = "none" => (response_text # <<>> \/ res.image_saved)
            /\ res.error = "No usable text or image data found in API response." =>
                   (acc.raised = "none" /\ acc.texts = <<>> /\ ~acc.image_saved)

FunctionCallLine ==
    << "[Model wants to call function 'generate_image' with arguments:", " ",
       "{\"prompt\": \"a cat\"}]" >>

ExperimentalNote ==
    << " ", " ",
       "(Note: This script's image generation is experimental and may require multi-turn tool handling not fully implemented here if only a function call is returned.)" >>

\* C20: a function-call part the parser reaches adds the line that names the
\* function and its arguments, and the note, raises nothing and saves no image;
\* a response with that part alone is interpreted successfully as these two
\* lines, after the one request of the turn.
C20_FunctionCallSurfaced ==
    Interpreted =>
        LET parts == AllParts(json_response.candidates)
            start == [texts |-> <<>>, image_saved |-> FALSE, raised |-> "none", error |-> "none"]
        IN  /\ \A i \in DOMAIN parts :
                  LET before == ProcessParts(start, SubSeq(parts, 1, i - 1))
                      after == ProcessPart(before, parts[i])
                  IN  (parts[i] = FunctionCallPart /\ before.raised = "none") =>
                          /\ after.raised = "none"
                          /\ after.image_saved = before.image_saved
                          /\ after.texts = before.texts \o << FunctionCallLine, ExperimentalNote >>
            /\ parts = << FunctionCallPart >> =>
                  /\ outcome = "none"
                  /\ response_text = FunctionCallLine \o <<"\n">> \o ExperimentalNote
                  /\ ~parse_api_response(json_response).image_saved
                  /\ api_calls = 1

\* the reply holds a function call and nothing else
C20_Witness ==
    /\ Interpreted
    /\ AllParts(json_response.candidates) = << FunctionCallPart >>
    /\ "promptFeedback" \notin DOMAIN json_response
    /\ outcome = "none"
    /\ response_text # <<>>

---------------------------------------------------------------------------
(* A chat turn answered under a prompt block *)

PromptBlocked(response) ==
    /\ "promptFeedback" \in DOMAIN response
    /\ "blockReason" \in DOMAIN response.promptFeedback

\* C18: no text of a response that carries a prompt-level block indicator is
\* returned as a successful result or recorded in history.
C18_PromptBlockNeverRecorded ==
    (TurnSucceeded /\ current_history # hist_at_turn) => ~PromptBlocked(json_response)

---------------------------------------------------------------------------
(* Inline images of a response *)

IsImagePart(part) == HasInlineData(part) /\ part.inlineData.mimeType[1] = "image"

HasImagePart ==
    \E i \in DOMAIN AllParts(json_response.candidates) :
        IsImagePart(AllParts(json_response.candidates)[i])

\* C21: a response with a part of inline image data is interpreted successfully
\* and the image is saved to a file, recorded as saved and not added to the text.
C21_InlineImageSaved ==
    (Interpreted /\ HasImagePart) =>
        /\ outcome = "none"
        /\ parse_api_response(json_response).image_saved

---------------------------------------------------------------------------
(* save_local_history followed by load_local_history *)

MaxSavedTurns == 2

SavedTexts ==
    { <<"hi">>,
      <<"say", " ", "\"", "hi", "\"">>,
      <<"a", "\n", "b", "\\", "n">>,
      <<"caf", "é", "\t", "{", "]">> }

SavedTurns == { << UserEntry(q), ModelEntry(a) >> : q \in SavedTexts, a \in SavedTexts }

RECURSIVE Concat(_)
Concat(seqs) == IF seqs = <<>> THEN <<>> ELSE Head(seqs) \o Concat(Tail(seqs))

SavedHistories ==
    { Concat(turns) : turns \in UNION { [1..n -> SavedTurns] : n \in 0..MaxSavedTurns } }

InitHistoryFile ==
    /\ pc = "save"
    /\ current_history \in SavedHistories
    /\ hist_at_turn = current_history
    /\ history_file \in { FileMissing, FileText(json_dump(PastHistory(2))) }
    /\ file_at_turn = history_file
    /\ args = [chat |-> TRUE]
    /\ local_context_content = <<>>
    /\ general_context_content = <<>>
    /\ raw_line = <<>>
    /\ user_input = <<>>
    /\ history_for_api = <<>>
    /\ payload_json = NoPayload
    /\ json_response = NoResponse
    /\ response_text = <<>>
    /\ current_model = DEFAULT_CHAT_MODEL
    /\ final_prompt_for_api = <<>>
    /\ api_calls = 0
    /\ lines_read = 0
    /\ outcome = "none"
    /\ warnings = {}
    /\ exit_code = -1
    /\ SUMMARIZER_PIPELINE = "None"
    /\ calls = <<>>

\* save_local_history(current_history, HISTORY_FILE): the file is written, or open()
\* raises and the file is as before, or the write stops early; a warning is printed
\* for the last two
SaveHistory ==
    /\ pc = "save"
    /\ \E fate \in {"written", "open raises", "write raises"} :
         LET text == json_dump(current_history)
         IN  /\ history_file' =
                    IF fate = "written" THEN FileText(text)
                    ELSE IF fate = "open raises" THEN history_file
                    ELSE FileText(SubSeq(text, 1, Len(text) \div 2))
             /\ outcome' = IF fate = "written" THEN "saved" ELSE "save_failed"
             /\ warnings' = IF fate = "written" THEN warnings
                            ELSE warnings \cup {"Could not save history"}
    /\ pc' = "load"
    /\ UNCHANGED <<SUMMARIZER_PIPELINE, calls, args, current_history, local_context_content,
                   general_context_content, raw_line, user_input, history_for_api,
                   payload_json, json_response, response_text, current_model,
                   final_prompt_for_api, api_calls, lines_read, hist_at_turn,
                   file_at_turn, exit_code>>

\* current_history = load_local_history(HISTORY_FILE) of the next run
LoadHistory ==
    /\ pc = "load"
    /\ current_history' = load_local_history(history_file).items
    /\ pc' = "loaded"
    /\ UNCHANGED <<SUMMARIZER_PIPELINE, calls, args, history_file, local_context_content,
                   general_context_content, raw_line, user_input, history_for_api,
                   payload_json, json_response, response_text, current_model,
                   final_prompt_for_api, api_calls, lines_read, outcome, warnings,
                   hist_at_turn, file_at_turn, exit_code>>

NextHistoryFile == SaveHistory \/ LoadHistory

SpecHistoryFile == InitHistoryFile /\ [][NextHistoryFile]_vars

\* C22: a history that save_local_history wrote is read back by load_local_history
\* equal in every entry and field and in the same order; the last record read is
\* the last record saved.
C22_HistoryRoundTrip ==
    (pc = "loaded" /\ outcome = "saved") =>
        /\ load_local_history(history_file).kind = "list"
        /\ current_history = hist_at_turn
        /\ hist_at_turn # <<>> =>
              current_history[Len(current_history)] = hist_at_turn[Len(hist_at_turn)]

\* two turns were saved and read back; the first question holds a quote, the
\* last answer an accented letter and a tab
C22_Witness ==
    /\ pc = "loaded"
    /\ outcome = "saved"
    /\ Len(current_history) = 4
    /\ current_history[1] = UserEntry(<<"say", " ", "\"", "hi", "\"">>)
    /\ current_history[4] = ModelEntry(<<"caf", "é", "\t", "{", "]">>)

---------------------------------------------------------------------------
\* an entry with a role and a list of parts, as construct_api_payload reads it
IsTurnEntry(entry) == DOMAIN entry = {"role", "parts"}

IsListOfTurns(loaded) ==
    /\ loaded.kind = "list"
    /\ \A i \in DOMAIN loaded.items : IsTurnEntry(loaded.items[i])

\* C23: whatever the history file holds, load_local_history yields an empty history
\* or a list of role/parts turns, and no later step of the run fails because of the
\* stored history's shape.
C23_StoredHistoryNeverFails ==
    /\ IsListOfTurns(load_local_history(history_file))
    /\ pc # "crashed"

---------------------------------------------------------------------------
UnreadableFileGiven(a) == \E i \in DOMAIN a.file : ~TextFiles[a.file[i]].readable

UnreadableImageGiven(a) == a.image_path # "" /\ ImageFiles[a.image_path] # "readable"

\* the prompt the run requires is empty: the positional prompt without --generate,
\* the --generate prompt with it
RequiredPromptEmpty(a) ==
    /\ ~a.list_models
    /\ ~a.clear_local_history
    /\ IF Truthy(a.generate) THEN ~Truthy(Strip(a.generate))
       ELSE a.prompt = <<>> \/ ~Truthy(Strip(JoinWords(<<>>, a.prompt)))

\* the run ended with a non-zero status before any call of call_api
EndedBeforeAnyCall ==
    /\ api_calls = 0
    /\ pc \notin {"call", "parse"}
    /\ pc \notin {"main", "build"} => exit_code # 0

---------------------------------------------------------------------------
(* text_summarizer.py.  A text is [type, words, spaces]: its type, the number  *)
(* of words text.split() gives and the number of whitespace characters; the   *)
(* empty string has neither.  A ratio is a fraction [num, den], den > 0.      *)

MIN_TEXT_LENGTH_FOR_SUMMARIZATION == 20
DEFAULT_MIN_SUMMARY_TOKENS == 10
DEFAULT_MAX_SUMMARY_TOKENS == 512

Str(words, spaces) == [type |-> "str", words |-> words, spaces |-> spaces]

\* math.ceil(words * ratio)
Ceil(n, d) == -((-n) \div d)

\* int(x * 0.5): truncation towards zero
HalfTruncated(x) == IF x >= 0 THEN x \div 2 ELSE -((-x) \div 2)

Max2(a, b) == IF a >= b THEN a ELSE b
Min2(a, b) == IF a <= b THEN a ELSE b

SummaryLengths_NoSecondAdjustment(text_word_count, min_length_ratio, max_length_ratio) ==
    LET min0 == Max2(DEFAULT_MIN_SUMMARY_TOKENS,
                     Ceil(text_word_count * min_length_ratio.num, min_length_ratio.den))
        max0 == Min2(DEFAULT_MAX_SUMMARY_TOKENS,
                     Ceil(text_word_count * max_length_ratio.num, max_length_ratio.den))
    IN  [min_length |-> IF min0 > max0
                        THEN Max2(DEFAULT_MIN_SUMMARY_TOKENS, HalfTruncated(max0))
                        ELSE min0,
         max_length |-> max0]

\* calculated_min_length and calculated_max_length
SummaryLengths(text_word_count, min_length_ratio, max_length_ratio) ==
    LET min0 == Max2(DEFAULT_MIN_SUMMARY_TOKENS,
                     Ceil(text_word_count * min_length_ratio.num, min_length_ratio.den))
        max0 == Min2(DEFAULT_MAX_SUMMARY_TOKENS,
                     Ceil(text_word_count * max_length_ratio.num, max_length_ratio.den))
        min1 == Max2(DEFAULT_MIN_SUMMARY_TOKENS, HalfTruncated(max0))
    IN  [min_length |-> IF min0 > max0
                        THEN (IF min1 > max0 THEN max0 ELSE min1)
                        ELSE min0,
         max_length |-> max0]

\* _load_summarizer: the cached pipeline, or the three library calls that build it;
\* fate names the call that raises, if any
LoadSteps == <<"AutoTokenizer.from_pretrained", "AutoModelForSeq2SeqLM.from_pretrained", "pipeline">>

LoadFates == {"loads"} \cup { LoadSteps[i] : i \in DOMAIN LoadSteps }

load_summarizer(cached, fate) ==
    IF cached # "None"
    THEN [raised |-> "none", pipeline |-> cached, made |-> <<>>]
    ELSE IF fate = "loads"
    THEN [raised |-> "none", pipeline |-> "summarization", made |-> [i \in DOMAIN LoadSteps |-> [op |-> LoadSteps[i]]]]
    ELSE LET k == CHOOSE i \in DOMAIN LoadSteps : LoadSteps[i] = fate
         IN  [raised |-> "SummarizationError", pipeline |-> "None",
              made |-> [i \in 1..k |-> [op |-> LoadSteps[i]]]]

\* summarize_text(text, min_length_ratio, max_length_ratio): the value returned or
\* the exception raised, the cached pipeline afterwards and the library calls made
summarize_text(text, min_length_ratio, max_length_ratio, cached, load_fate, run_fate) ==
    IF text.type # "str" \/ (text.words = 0 /\ text.spaces = 0)
    THEN [raised |-> "none", value |-> Str(0, 0), pipeline |-> cached, made |-> <<>>]
    ELSE LET loaded == load_summarizer(cached, load_fate)
             lengths == SummaryLengths(text.words, min_length_ratio, max_length_ratio)
             run == [op |-> "summarizer", text |-> text, min_length |-> lengths.min_length,
                     max_length |-> lengths.max_length]
         IN  IF loaded.raised # "none"
             THEN [raised |-> "SummarizationError", value |-> Str(0, 0),
                   pipeline |-> loaded.pipeline, made |-> loaded.made]
             ELSE IF text.words < MIN_TEXT_LENGTH_FOR_SUMMARIZATION
             THEN [raised |-> "none", value |-> text, pipeline |-> loaded.pipeline,
                   made |-> loaded.made]
             ELSE IF run_fate = "raises"
             THEN [raised |-> "SummarizationError", value |-> Str(0, 0),
                   pipeline |-> loaded.pipeline, made |-> Append(loaded.made, run)]
             ELSE [raised |-> "none", value |-> [type |-> "summary", of |-> text],
                   pipeline |-> loaded.pipeline, made |-> Append(loaded.made, run)]

MaxSummaries == 2

SummarizerTexts ==
    { [type |-> "None", words |-> 0, spaces |-> 0], Str(0, 0), Str(0, 3), Str(2, 1), Str(19, 18),
      Str(20, 19), Str(21, 25), Str(100, 99), Str(600, 640), Str(1100, 1099), Str(2000, 1999) }

SummarizerRatios ==
    { [num |-> -1, den |-> 4], [num |-> 0, den |-> 1], [num |-> 1, den |-> 8],
      [num |-> 5, den |-> 16], [num |-> 1, den |-> 2], [num |-> 1, den |-> 1],
      [num |-> 3, den |-> 2] }

InitSummarize ==
    /\ pc = "idle"
    /\ args \in [text : SummarizerTexts, min_length_ratio : SummarizerRatios,
                 max_length_ratio : SummarizerRatios]
    /\ SUMMARIZER_PIPELINE = "None"
    /\ calls = <<>>
    /\ response_text = <<>>
    /\ outcome = "none"
    /\ lines_read = 0
    /\ history_file = FileMissing
    /\ file_at_turn = FileMissing
    /\ current_history = <<>>
    /\ hist_at_turn = <<>>
    /\ local_context_content = <<>>
    /\ general_context_content = <<>>
    /\ raw_line = <<>>
    /\ user_input = <<>>
    /\ history_for_api = <<>>
    /\ payload_json = NoPayload
    /\ json_response = NoResponse
    /\ current_model = ""
    /\ final_prompt_for_api = <<>>
    /\ api_calls = 0
    /\ warnings = {}
    /\ exit_code = -1

\* one call of summarize_text(args.text, args.min_length_ratio, args.max_length_ratio);
\* calls holds the library calls of this call, lines_read counts the calls made
SummarizeText ==
    /\ pc \in {"idle", "returned", "raised"}
    /\ lines_read < MaxSummaries
    /\ \E load_fate \in LoadFates, run_fate \in {"returns", "raises"} :
         LET res == summarize_text(args.text, args.min_length_ratio, args.max_length_ratio,
                                   SUMMARIZER_PIPELINE, load_fate, run_fate)
         IN  /\ SUMMARIZER_PIPELINE' = res.pipeline
             /\ calls' = res.made
             /\ response_text' = res.value
             /\ outcome' = res.raised
             /\ pc' = IF res.raised = "none" THEN "returned" ELSE "raised"
    /\ lines_read' = lines_read + 1
    /\ UNCHANGED <<args, history_file, current_history, local_context_content,
                   general_context_content, raw_line, user_input, history_for_api,
                   payload_json, json_response, current_model, final_prompt_for_api,
                   api_calls, warnings, hist_at_turn, file_at_turn, exit_code>>

NextSummarize == SummarizeText

SpecSummarize == InitSummarize /\ [][NextSummarize]_vars

SummarizerCalls == { i \in DOMAIN calls : calls[i].op = "summarizer" }

\* C25: for a text of at least MIN_TEXT_LENGTH_FOR_SUMMARIZATION words and any two
\* ratios, the lengths passed to the summarizer satisfy
\* min_length <= max_length <= DEFAULT_MAX_SUMMARY_TOKENS, with
\* max_length = min(512, ceil(words * max_ratio)) and
\* min_length = max(10, ceil(words * min_ratio)) unless that exceeds max_length, and
\* then a value of at most max_length.
C25_LengthsOrdered ==
    \A i \in SummarizerCalls :
        LET words == args.text.words
            wanted_min == Max2(10, Ceil(words * args.min_length_ratio.num, args.min_length_ratio.den))
            wanted_max == Min2(512, Ceil(words * args.max_length_ratio.num, args.max_length_ratio.den))
        IN  /\ words >= MIN_TEXT_LENGTH_FOR_SUMMARIZATION
            /\ calls[i].min_length <= calls[i].max_length
            /\ calls[i].max_length <= DEFAULT_MAX_SUMMARY_TOKENS
            /\ calls[i].max_length = wanted_max
            /\ wanted_min <= wanted_max => calls[i].min_length = wanted_min

\* a text of 20 words with both ratios 5/16: ceil(6.25) = 7 is below the floor of
\* 10, and min_length is lowered to max_length = 7
C25_Witness ==
    /\ pc = "returned"
    /\ args.text = Str(20, 19)
    /\ \E i \in SummarizerCalls : calls[i].min_length = 7 /\ calls[i].max_length = 7

IsShortOrEmpty(text) ==
    text.type = "str" /\ text.words < MIN_TEXT_LENGTH_FOR_SUMMARIZATION

\* C26: for a text that is empty or shorter than MIN_TEXT_LENGTH_FOR_SUMMARIZATION
\* words, summarize_text returns the input unchanged and the pipeline is neither
\* loaded nor called.
C26_ShortTextSkipsPipeline ==
    (lines_read > 0 /\ IsShortOrEmpty(args.text)) =>
        /\ pc = "returned"
        /\ response_text = args.text
        /\ SUMMARIZER_PIPELINE = "None"
        /\ calls = <<>>

---------------------------------------------------------------------------
(* summarize_pdf_audio.py: main.  args holds the parsed arguments, user_input  *)
(* the extracted text, response_text the summary text, calls the pipeline     *)
(* steps called so far with their arguments.                                  *)

\* a <= b for fractions with positive denominators
RatioLeq(a, b) == a.num * b.den <= b.num * a.den

RatioZero == [num |-> 0, den |-> 1]
RatioOne == [num |-> 1, den |-> 1]

InUnitInterval(r) == RatioLeq(RatioZero, r) /\ RatioLeq(r, RatioOne)

RatiosValid_OrderUnchecked(min_summary_ratio, max_summary_ratio) ==
    InUnitInterval(min_summary_ratio) /\ InUnitInterval(max_summary_ratio)

\* the three tests of the argument validation
RatiosValid(min_summary_ratio, max_summary_ratio) ==
    /\ InUnitInterval(min_summary_ratio)
    /\ InUnitInterval(max_summary_ratio)
    /\ RatioLeq(min_summary_ratio, max_summary_ratio)

\* os.path.splitext(os.path.basename(pdf))[0] + "_summary.mp3"
DefaultOutput(pdf) ==
    LET base == pdf[Len(pdf)]
    IN  <<base.stem, "_summary.mp3">>

FinalOutputFilename(a) == IF a.output # <<>> THEN a.output ELSE DefaultOutput(a.pdf)

IsEmptyText(text) == text.type # "str" \/ (text.words = 0 /\ text.spaces = 0)

PdfArgs ==
    [pdf : { << [stem |-> "docs", ext |-> ""], [stem |-> "report", ext |-> ".pdf"] >> },
     output : { <<>>, <<"out.mp3">> },
     lang : {"es"},
     min_summary_ratio : SummarizerRatios,
     max_summary_ratio : SummarizerRatios]

\* what extract_text_from_pdf returns or raises
ExtractOutcomes ==
    { [raised |-> "none", text |-> Str(600, 640)],
      [raised |-> "none", text |-> Str(2, 1)],
      [raised |-> "none", text |-> Str(0, 0)],
      [raised |-> "FileNotFoundError", text |-> Str(0, 0)],
      [raised |-> "PDFProcessingError", text |-> Str(0, 0)],
      [raised |-> "Exception", text |-> Str(0, 0)] }

\* what generate_audio_summary returns or raises
AudioOutcomes == {"path", "None", "AudioGenerationError", "Exception"}

InitPdfAudio ==
    /\ pc = "validate"
    /\ args \in PdfArgs
    /\ SUMMARIZER_PIPELINE = "None"
    /\ calls = <<>>
    /\ user_input = Str(0, 0)
    /\ response_text = Str(0, 0)
    /\ outcome = "none"
    /\ exit_code = -1
    /\ lines_read = 0
    /\ history_file = FileMissing
    /\ file_at_turn = FileMissing
    /\ current_history = <<>>
    /\ hist_at_turn = <<>>
    /\ local_context_content = <<>>
    /\ general_context_content = <<>>
    /\ raw_line = <<>>
    /\ history_for_api = <<>>
    /\ payload_json = NoPayload
    /\ json_response = NoResponse
    /\ current_model = ""
    /\ final_prompt_for_api = <<>>
    /\ api_calls = 0
    /\ warnings = {}

\* the argument validation and the output filename
PdfValidate ==
    /\ pc = "validate"
    /\ IF RatiosValid(args.min_summary_ratio, args.max_summary_ratio)
       THEN /\ pc' = "extract"
            /\ final_prompt_for_api' = FinalOutputFilename(args)
            /\ UNCHANGED <<outcome, exit_code>>
       ELSE /\ pc' = "exited" /\ outcome' = "invalid ratio" /\ exit_code' = 1
            /\ UNCHANGED final_prompt_for_api
    /\ UNCHANGED <<SUMMARIZER_PIPELINE, calls, args, history_file, current_history,
                   local_context_content, general_context_content, raw_line, user_input,
                   history_for_api, payload_json, json_response, response_text,
                   current_model, api_calls, lines_read, warnings, hist_at_turn,
                   file_at_turn>>

\* Step 1: extract_text_from_pdf(args.pdf)
PdfExtract ==
    /\ pc = "extract"
    /\ calls' = Append(calls, [op |-> "extract_text_from_pdf", pdf |-> args.pdf])
    /\ \E res \in ExtractOutcomes :
         IF res.raised # "none"
         THEN /\ pc' = "exited" /\ outcome' = res.raised /\ exit_code' = 1
              /\ UNCHANGED user_input
         ELSE /\ user_input' = res.text
              /\ IF IsEmptyText(res.text)
                 THEN pc' = "exited" /\ outcome' = "no text" /\ exit_code' = 0
                 ELSE pc' = "summarize" /\ UNCHANGED <<outcome, exit_code>>
    /\ UNCHANGED <<SUMMARIZER_PIPELINE, args, history_file, current_history,
                   local_context_content, general_context_content, raw_line,
                   history_for_api, payload_json, json_response, response_text,
                   current_model, final_prompt_for_api, api_calls, lines_read, warnings,
                   hist_at_turn, file_at_turn>>

\* Step 2: summarize_text(extracted_text, min_length_ratio=..., max_length_ratio=...);
\* on an exception the summary text is the extracted text
PdfSummarize ==
    /\ pc = "summarize"
    /\ calls' = Append(calls, [op |-> "summarize_text", text |-> user_input,
                               min_length_ratio |-> args.min_summary_ratio,
                               max_length_ratio |-> args.max_summary_ratio])
    /\ \E load_fate \in LoadFates, run_fate \in {"returns", "raises"} :
         LET res == summarize_text(user_input, args.min_summary_ratio, args.max_summary_ratio,
                                   SUMMARIZER_PIPELINE, load_fate, run_fate)
             summary_text == IF res.raised = "none" THEN res.value ELSE user_input
         IN  /\ SUMMARIZER_PIPELINE' = res.pipeline
             /\ response_text' = summary_text
             /\ outcome' = IF res.raised = "none" THEN "summarized" ELSE "fallback"
             /\ IF summary_text.type = "str" /\ IsEmptyText(summary_text)
                THEN pc' = "exited" /\ exit_code' = 0
                ELSE pc' = "audio" /\ UNCHANGED exit_code
    /\ UNCHANGED <<args, history_file, current_history, local_context_content,
                   general_context_content, raw_line, user_input, history_for_api,
                   payload_json, json_response, current_model, final_prompt_for_api,
                   api_calls, lines_read, warnings, hist_at_turn, file_at_turn>>

\* Step 3: generate_audio_summary(summary_text, output_filename=..., lang=...)
PdfAudio ==
    /\ pc = "audio"
    /\ calls' = Append(calls, [op |-> "generate_audio_summary", text |-> response_text,
                               output_filename |-> final_prompt_for_api, lang |-> args.lang])
    /\ \E res \in AudioOutcomes :
         /\ outcome' = IF res = "path" THEN "audio saved" ELSE res
         /\ exit_code' = IF res = "path" THEN 0 ELSE 1
    /\ pc' = "exited"
    /\ UNCHANGED <<SUMMARIZER_PIPELINE, args, history_file, current_history,
                   local_context_content, general_context_content, raw_line, user_input,
                   history_for_api, payload_json, json_response, response_text,
                   current_model, final_prompt_for_api, api_calls, lines_read, warnings,
                   hist_at_turn, file_at_turn>>

NextPdfAudio == PdfValidate \/ PdfExtract \/ PdfSummarize \/ PdfAudio

SpecPdfAudio == InitPdfAudio /\ [][NextPdfAudio]_vars

PipelineOrder == <<"extract_text_from_pdf", "summarize_text", "generate_audio_summary">>

\* C27: with a ratio outside [0, 1] or min > max the process exits before any
\* pipeline step; otherwise the steps called are, in this order, extract, summarize
\* and generate audio.
C27_ValidationBeforePipeline ==
    /\ (~InUnitInterval(args.min_summary_ratio)
          \/ ~InUnitInterval(args.max_summary_ratio)
          \/ ~RatioLeq(args.min_summary_ratio, args.max_summary_ratio)) =>
            /\ calls = <<>>
            /\ pc \in {"validate", "exited"}
            /\ pc = "exited" => exit_code = 1
    /\ Len(calls) <= Len(PipelineOrder)
    /\ \A i \in DOMAIN calls : calls[i].op = PipelineOrder[i]

\* both ratios lie in [0, 1] but min = 1/2 exceeds max = 1/8: the run has exited
\* with status 1 and no step was called
C27_Witness ==
    /\ pc = "exited"
    /\ exit_code = 1
    /\ args.min_summary_ratio = [num |-> 1, den |-> 2]
    /\ args.max_summary_ratio = [num |-> 1, den |-> 8]
    /\ calls = <<>>

---------------------------------------------------------------------------
\* C28: run with --pdf-audio-summary, main runs the PDF pipeline (extract text,
\* summarize, generate audio) instead of every other mode; the process exits 0 on
\* success and 1 when a step raises or the helper modules are unavailable.
C28_PdfModeRuns ==
    (pc = "exited" /\ args.unrecognized = <<"--pdf-audio-summary">>) =>
        /\ exit_code \in {0, 1}
        /\ exit_code = 0 => [i \in DOMAIN calls |-> calls[i].op] = PipelineOrder
        /\ api_calls = 0

---------------------------------------------------------------------------
SwitchWarnings ==
    {"switched to image generation model", "switched to vision model", "switched to text model"}

\* the payload construct_api_payload builds for the resolved model
PayloadForResolvedModel ==
    LET generation_mode == Truthy(args.generate)
    IN  construct_api_payload(final_prompt_for_api, args.gen,
                              IF generation_mode THEN "" ELSE args.image_path,
                              current_model, history_for_api,
                              IF generation_mode THEN args.generate ELSE <<>>)

\* C29: after model resolution in single-shot main the model used has the
\* capability the request needs (image generation for --generate, multimodal for an
\* input image, text or multimodal otherwise), a substitution is reported by a
\* warning, and the payload is built for the model the request is sent to.
C29_ResolvedModelIsCapable ==
    pc \in {"call", "parse"} =>
        /\ IF Truthy(args.generate)
           THEN current_model \in SUPPORTED_IMAGE_GENERATION_MODELS
           ELSE IF args.image_path # ""
           THEN current_model \in SUPPORTED_MULTIMODAL_MODELS
           ELSE current_model \in SUPPORTED_TEXT_MODELS \cup SUPPORTED_MULTIMODAL_MODELS
        /\ current_model # args.model <=> warnings \cap SwitchWarnings # {}
        /\ PayloadForResolvedModel.raised = "none"
        /\ payload_json = PayloadForResolvedModel.payload

\* an input image was given with a model that takes no images: the request goes to
\* the default vision model, with a warning
C29_Witness ==
    /\ pc = "call"
    /\ args.image_path = "cat.jpg"
    /\ ~Truthy(args.generate)
    /\ args.model = "gemini-1.0-pro"
    /\ current_model = DEFAULT_VISION_MODEL
    /\ "switched to vision model" \in warnings

---------------------------------------------------------------------------
\* even length, roles alternating user, model from the first entry on
WellFormedHistory(h) ==
    /\ Len(h) % 2 = 0
    /\ \A i \in DOMAIN h :
          /\ "role" \in DOMAIN h[i]
          /\ h[i].role = (IF i % 2 = 1 THEN "user" ELSE "model")

\* C30: in a chat session started from a well-formed history, every step leaves the
\* in-memory history of even length with roles alternating from user; the step that
\* records a successful turn lengthens it by two and every other step leaves it as
\* it is, so its length is the initial length plus twice the number of successful
\* turns.
C30_ParityKept ==
    [][ (pc # "start" /\ WellFormedHistory(current_history)) =>
            /\ WellFormedHistory(current_history')
            /\ IF pc = "parse" /\ pc' = "save"
               THEN /\ Len(current_history') = Len(current_history) + 2
                    /\ SubSeq(current_history', 1, Len(current_history)) = current_history
               ELSE current_history' = current_history
      ]_vars

\* a session started from one stored turn has recorded one turn and then failed one
C30_Witness ==
    /\ TurnFailed
    /\ lines_read = 2
    /\ hist_at_turn = current_history
    /\ Len(current_history) = 4
    /\ SubSeq(current_history, 1, 2) = PastHistory(2)
    /\ WellFormedHistory(current_history)

====
